---------------------------- MODULE Spec2Model ----------------------------
(***************************************************************************)
(* Model of the rule-application and network-expansion engine of           *)
(* mine-pickaxe (src/minedatabase/reactions.py, src/minedatabase/utils.py) *)
(* and of the reference reconciliation of the MINE database class          *)
(* (src/databases.py).                                                     *)
(*                                                                         *)
(* The molecular structure engine (RDKit) is external.  It is modelled by  *)
(* a finite universe of structures (Mols) with the attributes the code     *)
(* reads from them: whether sanitisation succeeds, whether the canonical   *)
(* SMILES is disconnected, whether hashing raises, the structural hash     *)
(* (first InChIKey block), the per-element atom counts of the molecular    *)
(* formula and the formal charge.  Two different structures can share a    *)
(* hash (stereoisomers, protonation states), as they do under              *)
(* compound_hash with inchi_blocks = 1.                                    *)
(***************************************************************************)
EXTENDS Integers, Sequences, FiniteSets, TLC

\* ------------------------------------------------------------------ bounds
MaxCpds == 3
MaxOps == 2
MaxProcesses == 2
MaxGen == 1
\* most reaction documents in the reactions collection
MaxRxns == 2
\* most entries in the Reactants or the Products of a reaction document
MaxSide == 2
\* most compounds of a half-reaction handed to rxn2hash
MaxHashCpds == 2
\* largest stoichiometric coefficient handed to rxn2hash
MaxCoef == 2
\* largest configured maximum generation count of the expansion loop
MaxGenerations == 2
\* most seed compounds of the expansion loop
MaxSeeds == 2
\* most "_new" in the name of a file that exists before prevent_overwrite
MaxNew == 2

\* the number of calls of add_rxn_pointers on one store
MaxRuns == 2

\* the number of processes running insert_compound on one id database
MaxInserters == 2

\* ------------------------------------------------- the structure universe
Elements == {"C", "H"}

\* Canonical isomeric SMILES are identified with the structure itself: two
\* different structures have different SMILES strings.
Mols == 1..14

\* kind: how _gen_compound fares on the structure
\*   "ok"     : sanitises, connected, hashes
\*   "insane" : MolToSmiles / SanitizeMol raises (inner try)
\*   "salt"   : the canonical SMILES contains "."
\*   "nohash" : the compound hash raises
MolKind(m) ==
    CASE m = 9 -> "insane"
      [] m = 10 -> "salt"
      [] m = 11 -> "nohash"
      [] OTHER -> "ok"

\* first InChIKey block: the structural skeleton the compound id hashes
MolSkel(m) ==
    CASE m \in {1, 2} -> 1
      [] m = 3 -> 2
      [] m \in {4, 5, 6} -> 3
      [] m = 7 -> 4
      [] m = 8 -> 5
      [] m = 12 -> 6
      [] m = 13 -> 7
      [] m = 14 -> 8
      [] OTHER -> 9

\* atom counts read off CalcMolFormula by the regular expression
MolAtoms(m) ==
    CASE m \in {1, 2, 4, 5} -> [C |-> 2, H |-> 4]
      [] m = 3 -> [C |-> 3, H |-> 6]
      [] m = 6 -> [C |-> 2, H |-> 3]
      [] m = 7 -> [C |-> 1, H |-> 2]
      [] m = 8 -> [C |-> 1, H |-> 1]
      [] m = 12 -> [C |-> 2, H |-> 4]
      [] m = 13 -> [C |-> 1, H |-> 2]
      [] m = 14 -> [C |-> 4, H |-> 8]
      [] OTHER -> [C |-> 1, H |-> 1]

\* GetFormalCharge
MolCharge(m) == IF m = 6 THEN -1 ELSE 0


\* ------------------------------------------------------------ dictionaries
EmptyDict == [x \in {} |-> 0]

\* d[k] = v of a Python dict; dict.update({k: v})
Put(d, k, v) == [x \in (DOMAIN d) \cup {k} |-> IF x = k THEN v ELSE d[x]]

Min(a, b) == IF a < b THEN a ELSE b

Max(a, b) == IF a > b THEN a ELSE b

\* ------------------------------------------------ identity service (utils)
\* variant of compound_hash that marks every id with a C
CompoundHashNoRole(m, cpd_type) == <<"C", MolSkel(m)>>

\* compound_hash: the role prefix followed by the hash of the first InChIKey
\* block.  The sha1 digest is taken as collision free: the skeleton stands
\* for its digest.
CompoundHash(m, cpd_type) ==
    IF cpd_type = "Coreactant" THEN <<"X", MolSkel(m)>>
    ELSE IF cpd_type = "Target Compound" THEN <<"T", MolSkel(m)>>
    ELSE <<"C", MolSkel(m)>>

\* str.startswith on a compound id
StartsWith(cpd_id, prefix) == cpd_id[1] = prefix

\* the order of compound ids as strings: the prefix letter, then the digest
IdKey(cpd_id) ==
    (CASE cpd_id[1] = "C" -> 0 [] cpd_id[1] = "T" -> 100 [] OTHER -> 200) + cpd_id[2]

\* list.sort / sorted of a list of records by a key
RECURSIVE InsertSorted(_, _, _)
InsertSorted(x, kx, s) ==
    IF s = <<>> THEN <<x>>
    ELSE IF kx < IdKey(Head(s)[1]) THEN <<x>> \o s
    ELSE <<Head(s)>> \o InsertSorted(x, kx, Tail(s))

RECURSIVE SortById(_)
SortById(s) ==
    IF s = <<>> THEN <<>>
    ELSE InsertSorted(Head(s), IdKey(Head(s)[1]), SortById(Tail(s)))

\* rxn2hash: the ids of each side are sorted and written "(1) id": the
\* stoichiometric coefficients do not enter the hashed text.  The sha256
\* digest is taken as collision free: the text stands for its digest.
\* The second component is the SMILES text of the reaction, with the
\* coefficients, each side sorted by compound id.
Rxn2Hash(reactants, products) ==
    LET ids(half) == SortById([k \in 1..Len(half) |-> <<half[k][2]._id>>])
        text(half) == [k \in 1..Len(ids(half)) |-> <<1, ids(half)[k][1]>>]
        smi(half) ==
            LET tups == SortById([k \in 1..Len(half) |->
                          <<half[k][2]._id, half[k][1], half[k][2].SMILES>>])
            IN [k \in 1..Len(tups) |-> <<tups[k][2], tups[k][3]>>]
    IN [rhash |-> <<"R", text(reactants), text(products)>>,
        rxn_text |-> <<smi(reactants), smi(products)>>]

\* --------------------------------------------------- coreactants and rules
\* coreactant_mols: rule token -> (structure, compound id);
\* coreactant_dict: compound id -> compound record.  Both are loaded before
\* the expansion and never change.
CoreactantTokens == {"ATP", "ADP"}

CoreactantMol(tok) == IF tok = "ATP" THEN 12 ELSE 13

CoreactantId(tok) == CompoundHash(CoreactantMol(tok), "Coreactant")

CoreactantRecord(tok) ==
    [_id |-> CoreactantId(tok), SMILES |-> CoreactantMol(tok),
     Type |-> "Coreactant", Generation |-> 0,
     atom_count |-> MolAtoms(CoreactantMol(tok)), Expand |-> FALSE]

\* The rule library: rule name -> (transform, {Reactants, Products}).
RuleNames == {"R1", "R2", "R3", "R4", "R5"}

RuleRoles(rule_name) ==
    CASE rule_name = "R1" -> [Reactants |-> <<"Any">>, Products |-> <<"Any">>]
      [] rule_name = "R2" -> [Reactants |-> <<"Any">>, Products |-> <<"Any">>]
      [] rule_name = "R3" -> [Reactants |-> <<"ATP", "Any">>,
                              Products |-> <<"ADP", "Any">>]
      [] rule_name = "R4" -> [Reactants |-> <<"Any", "Any">>,
                              Products |-> <<"Any", "Any">>]
      [] OTHER -> [Reactants |-> <<"Any">>, Products |-> <<"Any", "Any">>]

\* rule[0].RunReactants(reactant_mols, maxProducts=10000): the product
\* tuples of the transform, or an exception.
RunReactants(rule_name, reactant_mols) ==
    CASE rule_name = "R1" /\ reactant_mols = <<1>> -> [tag |-> "ok", sets |-> << <<4>> >>]
      [] rule_name = "R1" /\ reactant_mols = <<2>> -> [tag |-> "ok", sets |-> << <<5>> >>]
      [] rule_name = "R1" /\ reactant_mols = <<3>> -> [tag |-> "ok", sets |-> << <<14>> >>]
      [] rule_name = "R1" /\ reactant_mols = <<7>> -> [tag |-> "ok", sets |-> << <<13>> >>]
      [] rule_name = "R1" /\ reactant_mols = <<10>> -> [tag |-> "ok", sets |-> << <<4>> >>]
      [] rule_name = "R2" /\ reactant_mols = <<1>> ->
            [tag |-> "ok", sets |-> << <<1>>, <<6>> >>]
      [] rule_name = "R2" /\ reactant_mols = <<3>> -> [tag |-> "exc", sets |-> <<>>]
      [] rule_name = "R3" /\ reactant_mols = <<12, 3>> ->
            [tag |-> "ok", sets |-> << <<13, 14>>, <<13, 9>>, <<13, 11>> >>]
      [] rule_name = "R3" /\ reactant_mols = <<12, 1>> ->
            [tag |-> "ok", sets |-> << <<13, 10>> >>]
      [] rule_name = "R4" /\ reactant_mols = <<1, 1>> ->
            [tag |-> "ok", sets |-> << <<4, 4>> >>]
      [] rule_name = "R4" /\ reactant_mols = <<3, 3>> ->
            [tag |-> "ok", sets |-> << <<7, 7>> >>]
      [] rule_name = "R5" /\ reactant_mols = <<3>> ->
            [tag |-> "ok", sets |-> << <<6, 8>>, <<4, 7>> >>]
      [] rule_name = "R5" /\ reactant_mols = <<1>> ->
            [tag |-> "ok", sets |-> << <<4, 10>>, <<7, 7>> >>]
      [] OTHER -> [tag |-> "ok", sets |-> <<>>]

\* ------------------------------------------- rule application (_run_reaction)
\* utils.get_atom_count: the element counts of the molecular formula
GetAtomCount(mol) == MolAtoms(mol)

\* _gen_compound(mol): "none" for an infeasible structure, "exc" when the
\* hash raises outside the inner try, else the record of local_cpds under
\* the structure's id when there is one, else a new record.
GenCompound(mol, local_cpds, generation) ==
    IF MolKind(mol) = "insane" THEN [tag |-> "none"]
    ELSE IF MolKind(mol) = "salt" THEN [tag |-> "none"]
    ELSE IF MolKind(mol) = "nohash" THEN [tag |-> "exc"]
    ELSE LET cpd_id == CompoundHash(mol, "Predicted")
         IN IF cpd_id \notin DOMAIN local_cpds
            THEN [tag |-> "ok",
                  cpd_dict |-> [_id |-> cpd_id, SMILES |-> mol,
                                Type |-> "Predicted", Generation |-> generation,
                                atom_count |-> GetAtomCount(mol), Expand |-> TRUE]]
            ELSE [tag |-> "ok", cpd_dict |-> local_cpds[cpd_id]]

\* collections.Counter over the elements
ZeroCounter == [e \in Elements |-> 0]

\* Counter.__sub__: only the positive differences are kept
CounterSub(a, b) == [e \in Elements |-> IF a[e] - b[e] > 0 THEN a[e] - b[e] ELSE 0]

\* truth value of a Counter holding only positive counts
CounterNonEmpty(a) == \E e \in Elements : a[e] # 0

\* lines 108-111: the atom counts of the distinct compounds, each weighted by
\* its coefficient
RECURSIVE WeightedAtoms(_, _, _)
WeightedAtoms(order, cpds, cpd_counter) ==
    IF order = <<>> THEN ZeroCounter
    ELSE LET rest == WeightedAtoms(Tail(order), cpds, cpd_counter)
             cid == Head(order)
         IN [e \in Elements |-> rest[e] + cpds[cid].atom_count[e] * cpd_counter[cid]]

\* variant of lines 104-106 that counts every compound once
CountSlotOnce(acc, cpd_dict, mol) ==
    [tag |-> "ok",
     cpds |-> Put(acc.cpds, cpd_dict._id, cpd_dict),
     order |-> IF cpd_dict._id \in DOMAIN acc.cpds THEN acc.order
               ELSE Append(acc.order, cpd_dict._id),
     cpd_counter |-> Put(acc.cpd_counter, cpd_dict._id, 1),
     charge_correction |-> acc.charge_correction + MolCharge(mol)]

\* lines 104-106: one slot's record counted into the half-reaction
CountSlot(acc, cpd_dict, mol) ==
    [tag |-> "ok",
     cpds |-> Put(acc.cpds, cpd_dict._id, cpd_dict),
     order |-> IF cpd_dict._id \in DOMAIN acc.cpds THEN acc.order
               ELSE Append(acc.order, cpd_dict._id),
     cpd_counter |-> Put(acc.cpd_counter, cpd_dict._id,
                         IF cpd_dict._id \in DOMAIN acc.cpds
                         THEN acc.cpd_counter[cpd_dict._id] + 1 ELSE 1),
     charge_correction |-> acc.charge_correction + MolCharge(mol)]

\* lines 95-102: the record of one slot
SlotCompound(mol, rule, local_cpds, generation) ==
    IF rule = "Any" THEN GenCompound(mol, local_cpds, generation)
    ELSE IF rule \in CoreactantTokens
         THEN [tag |-> "ok", cpd_dict |-> CoreactantRecord(rule)]
         ELSE [tag |-> "exc"]

\* lines 94-106: the loop of _make_half_rxn over zip(mol_list, rules)
RECURSIVE HalfRxnLoop(_, _, _, _, _, _)
RECURSIVE HalfRxnSlot(_, _, _, _, _, _, _)
\* variant of lines 95-99 that leaves a failed compound out and goes on
HalfRxnSlotSkip(mol_list, rules, local_cpds, generation, k, acc, g) ==
    IF g.tag = "exc" THEN [acc EXCEPT !.tag = g.tag]
    ELSE IF g.tag = "none" THEN HalfRxnLoop(mol_list, rules, local_cpds, generation, k + 1, acc)
    ELSE HalfRxnLoop(mol_list, rules, local_cpds, generation, k + 1,
                     CountSlot(acc, g.cpd_dict, mol_list[k]))

HalfRxnSlot(mol_list, rules, local_cpds, generation, k, acc, g) ==
    IF g.tag # "ok" THEN [acc EXCEPT !.tag = g.tag]
    ELSE HalfRxnLoop(mol_list, rules, local_cpds, generation, k + 1,
                     CountSlot(acc, g.cpd_dict, mol_list[k]))

HalfRxnLoop(mol_list, rules, local_cpds, generation, k, acc) ==
    IF k > Min(Len(mol_list), Len(rules)) THEN acc
    ELSE HalfRxnSlot(mol_list, rules, local_cpds, generation, k, acc,
                     SlotCompound(mol_list[k], rules[k], local_cpds, generation))

\* lines 108-118: the result of _make_half_rxn from the state of its loop
HalfRxnResult(r, raw) ==
    IF r.tag # "ok" THEN [tag |-> r.tag, cpd_returns |-> <<>>, atom_counts |-> ZeroCounter]
    ELSE [tag |-> "ok",
          cpd_returns |-> [k \in 1..Len(r.order) |->
                             <<r.cpd_counter[r.order[k]], r.cpds[r.order[k]]>>],
          atom_counts |-> [raw EXCEPT !["H"] = raw["H"] - r.charge_correction]]

HalfRxnAtoms(r) ==
    HalfRxnResult(r, IF r.tag = "ok" THEN WeightedAtoms(r.order, r.cpds, r.cpd_counter)
                     ELSE ZeroCounter)

\* _make_half_rxn(mol_list, rules): tag "none" for (None, None), "exc" when
\* an exception leaves it, else the list of (coefficient, record) in the
\* order of first occurrence and the charge-corrected atom counts.
MakeHalfRxn(mol_list, rules, local_cpds, generation) ==
    HalfRxnAtoms(HalfRxnLoop(mol_list, rules, local_cpds, generation, 1,
                    [tag |-> "ok", cpds |-> EmptyDict, order |-> <<>>,
                     cpd_counter |-> EmptyDict, charge_correction |-> 0]))

\* set([r[1]["_id"] for r in half])
IdSet(half) == {half[k][2]._id : k \in 1..Len(half)}

\* variant of line 191 without the test
SharesCompoundNever(reactant_set, product_set) == FALSE

\* line 191: a reactant left unchanged
SharesCompound(reactant_set, product_set) == reactant_set \cap product_set # {}

\* variant of lines 194-197 testing only the excess of the reactants
IsAtomBalancedOneWay(reactant_atoms, product_atoms) ==
    ~CounterNonEmpty(CounterSub(reactant_atoms, product_atoms))

\* lines 194-197
IsAtomBalanced(reactant_atoms, product_atoms) ==
    ~(CounterNonEmpty(CounterSub(reactant_atoms, product_atoms))
      \/ CounterNonEmpty(CounterSub(product_atoms, reactant_atoms)))

\* variant of lines 199-202 in which no product goes into local_cpds
AddProductsNone(local_cpds, products) == local_cpds

\* variant of lines 200-202 without the test of the id
RECURSIVE AddProductsAll(_, _)
AddProductsAll(local_cpds, products) ==
    IF products = <<>> THEN local_cpds
    ELSE AddProductsAll(Put(local_cpds, Head(products)[2]._id, Head(products)[2]), Tail(products))

\* lines 200-202: the predicted products go into local_cpds
RECURSIVE AddProducts(_, _)
AddProducts(local_cpds, products) ==
    IF products = <<>> THEN local_cpds
    ELSE LET cpd_dict == Head(products)[2]
         IN AddProducts(IF StartsWith(cpd_dict._id, "C")
                        THEN Put(local_cpds, cpd_dict._id, cpd_dict)
                        ELSE local_cpds,
                        Tail(products))

\* variant of lines 204-215 that leaves a reaction already present as it is
AddHashedKeep(local_rxns, rule_name, reactants, products, h) ==
    IF h.rhash \notin DOMAIN local_rxns
    THEN Put(local_rxns, h.rhash,
             [_id |-> h.rhash,
              Reactants |-> [k \in 1..Len(reactants) |->
                               <<reactants[k][1], reactants[k][2]._id>>],
              Products |-> [k \in 1..Len(products) |->
                              <<products[k][1], products[k][2]._id>>],
              Operators |-> {rule_name},
              SMILES_rxn |-> h.rxn_text])
    ELSE local_rxns

\* lines 204-215: the reaction goes into local_rxns under its hash
AddHashed(local_rxns, rule_name, reactants, products, h) ==
    IF h.rhash \notin DOMAIN local_rxns
    THEN Put(local_rxns, h.rhash,
             [_id |-> h.rhash,
              Reactants |-> [k \in 1..Len(reactants) |->
                               <<reactants[k][1], reactants[k][2]._id>>],
              Products |-> [k \in 1..Len(products) |->
                              <<products[k][1], products[k][2]._id>>],
              Operators |-> {rule_name},
              SMILES_rxn |-> h.rxn_text])
    ELSE [local_rxns EXCEPT ![h.rhash].Operators = @ \cup {rule_name}]

AddReaction(local_rxns, rule_name, reactants, products) ==
    AddHashed(local_rxns, rule_name, reactants, products, Rxn2Hash(reactants, products))

\* lines 169-173, before the except clause: the transform, then the
\* reactant half-reaction.  tag "exc": an exception was raised in the try
\* block; "none": _make_half_rxn returned (None, None).
ReactantsOf(t, h) ==
    IF t.tag = "exc"
    THEN [tag |-> "exc", product_sets |-> <<>>, reactants |-> <<>>,
          reactant_atoms |-> ZeroCounter]
    ELSE [tag |-> h.tag, product_sets |-> t.sets, reactants |-> h.cpd_returns,
          reactant_atoms |-> h.atom_counts]

RawReactants(rule_name, reactant_mols, local_cpds, generation) ==
    ReactantsOf(RunReactants(rule_name, reactant_mols),
                MakeHalfRxn(reactant_mols, RuleRoles(rule_name).Reactants,
                            local_cpds, generation))

\* variant of lines 169-176 without the except clause
TryReactantsNoCatch(raw) == raw

\* lines 172-176: except BaseException: reactants = None, None
TryReactants(raw) == IF raw.tag = "exc" THEN [raw EXCEPT !.tag = "none"] ELSE raw

\* lines 175-179: not all(reactants) returns the local dictionaries (tag
\* "return"); else the product loop is entered (tag "loop").  Tag "exc":
\* an exception leaves _run_reaction.
EnterLoop(r) ==
    IF r.tag = "exc" THEN r
    ELSE IF r.tag = "none" THEN [r EXCEPT !.tag = "return"]
    ELSE [r EXCEPT !.tag = "loop"]

\* lines 169-181
BeginReaction(rule_name, reactant_mols, local_cpds, generation) ==
    EnterLoop(TryReactants(RawReactants(rule_name, reactant_mols, local_cpds, generation)))

\* a candidate that records nothing
SkipCandidate(local_cpds, local_rxns) ==
    [tag |-> "ok", accepted |-> FALSE, shared |-> FALSE, cpds |-> local_cpds,
     rxns |-> local_rxns, products |-> <<>>, product_atoms |-> ZeroCounter]

\* lines 186-215, after the product half-reaction h has been built
CheckCandidate(rule_name, reactants, reactant_atoms, local_cpds, local_rxns, h) ==
    IF h.tag = "exc" THEN [SkipCandidate(local_cpds, local_rxns) EXCEPT !.tag = "exc"]
    ELSE IF h.tag = "none" \/ h.cpd_returns = <<>>
    THEN SkipCandidate(local_cpds, local_rxns)
    ELSE IF SharesCompound(IdSet(reactants), IdSet(h.cpd_returns))
    THEN [SkipCandidate(local_cpds, local_rxns) EXCEPT !.shared = TRUE]
    ELSE IF ~IsAtomBalanced(reactant_atoms, h.atom_counts)
    THEN SkipCandidate(local_cpds, local_rxns)
    ELSE [tag |-> "ok", accepted |-> TRUE, shared |-> FALSE,
          cpds |-> AddProducts(local_cpds, h.cpd_returns),
          rxns |-> AddReaction(local_rxns, rule_name, reactants, h.cpd_returns),
          products |-> h.cpd_returns, product_atoms |-> h.atom_counts]

\* lines 185-215, the body of the try block of one candidate product tuple.
\* accepted: the candidate passed every check and was recorded.
RawCandidate(rule_name, reactants, reactant_atoms, product_mols, local_cpds, local_rxns, generation) ==
    CheckCandidate(rule_name, reactants, reactant_atoms, local_cpds, local_rxns,
                   MakeHalfRxn(product_mols, RuleRoles(rule_name).Products,
                               local_cpds, generation))

\* variant of lines 184 and 217-218 without the except clause
TryCandidateNoCatch(raw) == raw

\* lines 184 and 217-218: except BaseException: continue
TryCandidate(raw) == IF raw.tag = "exc" THEN [raw EXCEPT !.tag = "ok"] ELSE raw

\* one iteration of the loop of line 183
Candidate(rule_name, reactants, reactant_atoms, product_mols, local_cpds, local_rxns, generation) ==
    TryCandidate(RawCandidate(rule_name, reactants, reactant_atoms, product_mols,
                              local_cpds, local_rxns, generation))

\* lines 183-220: the loop over product_sets
RECURSIVE ProductLoop(_, _, _, _, _, _, _)
RECURSIVE ProductNext(_, _, _, _, _, _)
ProductNext(rule_name, reactants, reactant_atoms, product_sets, generation, c) ==
    IF c.tag = "exc" THEN [tag |-> "exc", cpds |-> c.cpds, rxns |-> c.rxns]
    ELSE ProductLoop(rule_name, reactants, reactant_atoms, Tail(product_sets),
                     c.cpds, c.rxns, generation)

ProductLoop(rule_name, reactants, reactant_atoms, product_sets, local_cpds, local_rxns, generation) ==
    IF product_sets = <<>>
    THEN [tag |-> "ok", cpds |-> local_cpds, rxns |-> local_rxns]
    ELSE ProductNext(rule_name, reactants, reactant_atoms, product_sets, generation,
                     Candidate(rule_name, reactants, reactant_atoms, Head(product_sets),
                               local_cpds, local_rxns, generation))

\* lines 175-220, after the reactants have been built
ReactionOf(rule_name, local_cpds, local_rxns, generation, b) ==
    IF b.tag = "exc" THEN [tag |-> "exc", cpds |-> local_cpds, rxns |-> local_rxns]
    ELSE IF b.tag = "return"
    THEN [tag |-> "ok", cpds |-> local_cpds, rxns |-> local_rxns]
    ELSE ProductLoop(rule_name, b.reactants, b.reactant_atoms, b.product_sets,
                     local_cpds, local_rxns, generation)

\* _run_reaction: tag "ok" with the local dictionaries it returns, "exc" when
\* an exception leaves it.
RunReaction(rule_name, reactant_mols, local_cpds, local_rxns, generation) ==
    ReactionOf(rule_name, local_cpds, local_rxns, generation,
               BeginReaction(rule_name, reactant_mols, local_cpds, generation))

\* ----------------------------- one compound (_transform_ind_compound_with_full)
Smiles == {"S1", "S2", "S3", "BAD"}

\* MolFromSmiles: 0 stands for None
MolFromSmiles(smi) ==
    CASE smi = "S1" -> 1 [] smi = "S2" -> 2 [] smi = "S3" -> 3 [] smi = "SALT" -> 10
      [] OTHER -> 0

\* lines 262-270: RemoveHs raises on None, so an unparsable SMILES leaves the
\* function by an exception (tag "exc"); tag "none" is the return None of
\* line 266.
PrepareMol(smi) ==
    IF MolFromSmiles(smi) = 0 THEN [tag |-> "exc", mol |-> 0]
    ELSE [tag |-> "ok", mol |-> MolFromSmiles(smi)]

\* lines 276-278
ReactantMols(mol, rule_name) ==
    LET roles == RuleRoles(rule_name).Reactants
    IN [k \in 1..Len(roles) |-> IF roles[k] = "Any" THEN mol ELSE CoreactantMol(roles[k])]

\* lines 293-296: local_cpds.update(generated_cpds) and the discarded union;
\* generated_cpds and generated_rxns are the local dictionaries themselves.
AfterRule(local_cpds, local_rxns, generated_cpds, generated_rxns) ==
    [cpds |-> [x \in (DOMAIN local_cpds) \cup (DOMAIN generated_cpds) |->
                 IF x \in DOMAIN generated_cpds THEN generated_cpds[x] ELSE local_cpds[x]],
     rxns |-> LET unused == [x \in DOMAIN generated_rxns |->
                               generated_rxns[x].Operators \cup generated_rxns[x].Operators]
              IN generated_rxns]

\* lines 274-298: the loop over operators.items()
RECURSIVE OperatorLoop(_, _, _, _, _)
RECURSIVE OperatorNext(_, _, _, _)
OperatorNext(mol, ops, generation, r) ==
    IF r.tag = "exc" THEN [tag |-> "exc", cpds |-> r.cpds, rxns |-> r.rxns]
    ELSE OperatorLoop(mol, Tail(ops), AfterRule(r.cpds, r.rxns, r.cpds, r.rxns).cpds,
                      AfterRule(r.cpds, r.rxns, r.cpds, r.rxns).rxns, generation)

OperatorLoop(mol, ops, local_cpds, local_rxns, generation) ==
    IF ops = <<>> THEN [tag |-> "ok", cpds |-> local_cpds, rxns |-> local_rxns]
    ELSE OperatorNext(mol, ops, generation,
                      RunReaction(Head(ops), ReactantMols(mol, Head(ops)),
                                  local_cpds, local_rxns, generation))

\* lines 259-298, after the compound has been prepared
TransformMol(ops, generation, p) ==
    IF p.tag # "ok" THEN [tag |-> p.tag, cpds |-> EmptyDict, rxns |-> EmptyDict]
    ELSE OperatorLoop(p.mol, ops, EmptyDict, EmptyDict, generation)

\* _transform_ind_compound_with_full: tag "ok" with the pair it returns,
\* "none" when it returns None, "exc" when an exception leaves it.
TransformInd(ops, generation, smi) == TransformMol(ops, generation, PrepareMol(smi))

\* ------------------------------ the merge (transform_all_compounds_with_full)
\* variant of lines 373 / 389 with an assignment in place of the update
MergeCpdsAssign(master, new_cpds) == new_cpds

\* lines 373 / 389: new_cpds_master.update(new_cpds)
MergeCpds(master, new_cpds) ==
    [x \in (DOMAIN master) \cup (DOMAIN new_cpds) |->
        IF x \in DOMAIN new_cpds THEN new_cpds[x] ELSE master[x]]

\* lines 377-381 / 392-396 for one reaction: set.union returns a new set,
\* which is dropped; the master record stays as it is.
MergeRxn(master, rxn, rxn_dict) ==
    IF rxn \in DOMAIN master
    THEN LET unused == master[rxn].Operators \cup rxn_dict.Operators IN master
    ELSE Put(master, rxn, rxn_dict)

\* lines 376-381 / 391-396: the loop over new_rxns.items(); the keys of
\* new_rxns are distinct, so the iteration order does not matter.
RECURSIVE MergeRxns(_, _)
MergeRxns(master, new_rxns) ==
    IF DOMAIN new_rxns = {} THEN master
    ELSE LET rxn == CHOOSE x \in DOMAIN new_rxns : TRUE
         IN MergeRxns(MergeRxn(master, rxn, new_rxns[rxn]),
                      [x \in (DOMAIN new_rxns) \ {rxn} |-> new_rxns[x]])

\* round(n / d) of Python 3: to the nearest integer, halves to the even one
PyRound(n, d) ==
    LET q == n \div d
        r == n % d
    IN IF 2 * r < d THEN q
       ELSE IF 2 * r > d THEN q + 1
       ELSE IF q % 2 = 0 THEN q ELSE q + 1

\* variant of line 367 without the lower limit
ChunkSizeRound(n, procs) == PyRound(n, procs * 10)

\* line 367
ChunkSize(n, procs) == Max(PyRound(n, procs * 10), 1)

\* ------------------------------------------------------------------- state
VARIABLES
    compound_smiles,   \* argument: the list of SMILES to react
    operators,         \* argument: the rule names, in the order of the dict
    generation,        \* argument
    processes,         \* argument
    pc,                \* where transform_all_compounds_with_full stands
    new_cpds_master,   \* the master compound dictionary
    new_rxns_master,   \* the master reaction dictionary
    seq_i,             \* sequential branch: index of the next compound
    task_next,         \* pool: index of the first compound not handed out
    running,           \* pool: worker -> the chunk (list indices) it works on
    outq,              \* pool: results waiting for the loop of line 369
    folded,            \* history: list indices in the order they were folded
    rx_pc,             \* where _transform_ind_compound_with_full stands
    rx_mol,            \* the prepared structure of the compound
    local_cpds,        \* the local compound dictionary
    local_rxns,        \* the local reaction dictionary
    rx_k,              \* index of the operator being applied
    rx_j,              \* index of the candidate product tuple
    rx_begin,          \* product_sets, reactants, reactant_atoms of the call
    rx_last,           \* history: the outcome of the last candidate
    rx_caught,         \* history: an except clause of this call has run
    db_pc,             \* where MINE.fix_rxn_pointers stands
    db_reactions,      \* the reactions collection: _id -> document
    comp_dict,         \* argument: the compound record
    new_id,            \* argument: the id the compound is to take
    db_i,              \* index into the back-reference list being walked
    db_old,            \* history: the id of comp_dict when the call began
    db_hash,           \* the _id of each reaction document: the hash it was stored under
    h_pc,              \* where the two calls of rxn2hash stand
    h_left,            \* arguments of the first call: reactants, products
    h_right,           \* arguments of the second call
    h_out,             \* the results of the two calls
    ex_pc,             \* expansion loop: start, idle, expanding, merging, done, failed
    ex_max,            \* the configured maximum generation count
    ex_g,              \* the last generation merged into the graph (0: the seeds)
    ex_cpds,           \* the graph: compound id -> record
    ex_rxns,           \* the graph: reaction id -> record
    ex_frontier,       \* the prepared structures of the frontier
    ex_delta,          \* the folded deltas of the round being merged
    ex_rounds,         \* history: the number of rounds begun
    ins_pc,            \* where MINE.insert_compound stands
    ins_smiles,        \* the SMILES insert_compound computes from mol_object
    db_compounds,      \* the compounds collection: _id -> document
    po_pc,             \* where prevent_overwrite stands
    po_input,          \* argument: the path prevent_overwrite is called with
    write_path,        \* the path as the loop has rewritten it
    po_exists,         \* the paths that exist in the file system
    po_iter,           \* history: the number of passes of the loop
    ptr_pc,            \* where MINE.add_rxn_pointers stands
    ptr_i,             \* index of the reaction document the cursor is at
    ptr_runs,          \* history: the number of calls that have returned
    ptr_once,          \* history: the compounds collection after the first call
    mi_pc,             \* inserter -> where it stands in lines 171-178
    mi_cpd,            \* inserter -> the record it is to store
    mi_id,             \* inserter -> the MINE_id it has put into its record
    id_db              \* compounds of the id database: _id -> document

inputVars == <<compound_smiles, operators, generation, processes>>

schedVars == <<pc, new_cpds_master, new_rxns_master, seq_i, task_next, running, outq, folded>>

rxVars == <<rx_pc, rx_mol, local_cpds, local_rxns, rx_k, rx_j, rx_begin, rx_last, rx_caught>>

dbVars == <<db_pc, db_reactions, comp_dict, new_id, db_i, db_old, db_hash>>

hashVars == <<h_pc, h_left, h_right, h_out>>

exVars == <<ex_pc, ex_max, ex_g, ex_cpds, ex_rxns, ex_frontier, ex_delta, ex_rounds>>

insVars == <<ins_pc, ins_smiles, db_compounds>>

poVars == <<po_pc, po_input, write_path, po_exists, po_iter>>

ptrVars == <<ptr_pc, ptr_i, ptr_runs, ptr_once>>

mineVars == <<mi_pc, mi_cpd, mi_id, id_db>>

vars == <<inputVars, schedVars, rxVars, dbVars, hashVars, exVars, insVars, poVars, ptrVars, mineVars>>

\* what the steps of each part leave alone
outsideSched == <<inputVars, rxVars, dbVars, hashVars, exVars, insVars, poVars, ptrVars, mineVars>>

outsideRx == <<inputVars, schedVars, dbVars, hashVars, exVars, insVars, poVars, ptrVars, mineVars>>

outsideDb == <<inputVars, schedVars, rxVars, hashVars, exVars, insVars, poVars, ptrVars, mineVars>>

outsideHash == <<inputVars, schedVars, rxVars, dbVars, exVars, insVars, poVars, ptrVars, mineVars>>

outsideEx == <<inputVars, schedVars, rxVars, dbVars, hashVars, insVars, poVars, ptrVars, mineVars>>

outsideIns == <<inputVars, schedVars, rxVars, hashVars, exVars, poVars, ptrVars, mineVars>>

outsidePo == <<inputVars, schedVars, rxVars, dbVars, hashVars, exVars, insVars, ptrVars, mineVars>>

outsidePtr == <<inputVars, schedVars, rxVars, hashVars, exVars, poVars, mineVars>>

outsideMine == <<inputVars, schedVars, rxVars, dbVars, hashVars, exVars, poVars, ptrVars>>

SeqsUpTo(S, n) == UNION {[1..k -> S] : k \in 0..n}

Injective(q) == \A a, b \in 1..Len(q) : q[a] = q[b] => a = b

N == Len(compound_smiles)

Workers == 1..processes

NoBegin == [tag |-> "none", product_sets |-> <<>>, reactants |-> <<>>, reactant_atoms |-> ZeroCounter]

NoCandidate == [tag |-> "none", accepted |-> FALSE, products |-> <<>>, product_atoms |-> ZeroCounter, product_mols |-> <<>>, shared |-> FALSE]

\* the scheduler at line 352, before any work
SchedIdle ==
    /\ pc = "start"
    /\ new_cpds_master = EmptyDict
    /\ new_rxns_master = EmptyDict
    /\ seq_i = 1
    /\ task_next = 1
    /\ running = [w \in 1..processes |-> <<>>]
    /\ outq = <<>>
    /\ folded = <<>>

\* _transform_ind_compound_with_full at line 259
RxIdle ==
    /\ rx_pc = "prepare"
    /\ rx_mol = 0
    /\ local_cpds = EmptyDict
    /\ local_rxns = EmptyDict
    /\ rx_k = 1
    /\ rx_j = 1
    /\ rx_begin = NoBegin
    /\ rx_last = NoCandidate
    /\ rx_caught = FALSE

\* no call of MINE.fix_rxn_pointers
DbIdle ==
    /\ db_pc = "idle"
    /\ db_reactions = EmptyDict
    /\ comp_dict = [_id |-> "none"]
    /\ new_id = "none"
    /\ db_i = 1
    /\ db_old = "none"
    /\ db_hash = EmptyDict

\* no call of rxn2hash
HashIdle ==
    /\ h_pc = "idle"
    /\ h_left = <<>>
    /\ h_right = <<>>
    /\ h_out = <<>>

\* no call of prevent_overwrite
PoIdle ==
    /\ po_pc = "off"
    /\ po_input = <<>>
    /\ write_path = <<>>
    /\ po_exists = {}
    /\ po_iter = 0

\* no call of MINE.add_rxn_pointers
PtrIdle ==
    /\ ptr_pc = "off"
    /\ ptr_i = 1
    /\ ptr_runs = 0
    /\ ptr_once = EmptyDict

\* no inserter at lines 171-178
MineIdle ==
    /\ mi_pc = <<>>
    /\ mi_cpd = <<>>
    /\ mi_id = <<>>
    /\ id_db = EmptyDict

\* no call of MINE.insert_compound
InsIdle ==
    /\ ins_pc = "off"
    /\ ins_smiles = "none"
    /\ db_compounds = EmptyDict

\* no expansion loop
ExIdle ==
    /\ ex_pc = "off"
    /\ ex_max = 0
    /\ ex_g = 0
    /\ ex_cpds = EmptyDict
    /\ ex_rxns = EmptyDict
    /\ ex_frontier = <<>>
    /\ ex_delta = [tag |-> "none"]
    /\ ex_rounds = 0

\* the state at line 352, with the arguments of the call
Init ==
    /\ compound_smiles \in SeqsUpTo(Smiles, MaxCpds)
    /\ operators \in {q \in SeqsUpTo(RuleNames, MaxOps) : Injective(q)}
    /\ generation \in 1..MaxGen
    /\ processes \in 1..MaxProcesses
    /\ SchedIdle
    /\ RxIdle
    /\ PoIdle
    /\ DbIdle
    /\ InsIdle
    /\ HashIdle
    /\ ExIdle
    /\ PtrIdle
    /\ MineIdle

\* line 366: the branch on processes
Start ==
    /\ pc = "start"
    /\ pc' = IF processes > 1 THEN "par" ELSE "seq"
    /\ UNCHANGED <<new_cpds_master, new_rxns_master, seq_i, task_next, running, outq, folded>>
    /\ UNCHANGED outsideSched

\* lines 372-381 / 386-396: one delta folded into the master dictionaries
FoldCpds(res) == MergeCpds(new_cpds_master, res.cpds)

FoldRxns(res) == MergeRxns(new_rxns_master, res.rxns)

\* lines 385-397: one iteration of the sequential loop.  A call that raises,
\* or returns None (the unpacking of line 386 raises), ends the function.
SeqIter ==
    /\ pc = "seq"
    /\ seq_i <= N
    /\ \E res \in {TransformInd(operators, generation, compound_smiles[seq_i])} :
          IF res.tag # "ok"
          THEN /\ pc' = "failed"
               /\ UNCHANGED <<new_cpds_master, new_rxns_master, seq_i, folded>>
          ELSE /\ new_cpds_master' = FoldCpds(res)
               /\ new_rxns_master' = FoldRxns(res)
               /\ seq_i' = seq_i + 1
               /\ folded' = Append(folded, seq_i)
               /\ pc' = pc
    /\ UNCHANGED <<task_next, running, outq>>
    /\ UNCHANGED outsideSched

\* line 399 after the sequential loop
SeqReturn ==
    /\ pc = "seq"
    /\ seq_i > N
    /\ pc' = "done"
    /\ UNCHANGED <<new_cpds_master, new_rxns_master, seq_i, task_next, running, outq, folded>>
    /\ UNCHANGED outsideSched

\* a pool worker takes the next chunk of chunk_size consecutive compounds
TakeChunk(w) ==
    /\ pc = "par"
    /\ running[w] = <<>>
    /\ task_next <= N
    /\ \E last \in {Min(task_next + ChunkSize(N, processes) - 1, N)} :
          /\ running' = [running EXCEPT ![w] = [k \in 1..(last - task_next + 1) |-> task_next + k - 1]]
          /\ task_next' = last + 1
    /\ UNCHANGED <<pc, new_cpds_master, new_rxns_master, seq_i, outq, folded>>
    /\ UNCHANGED outsideSched

\* variant of the pool in which a call that raised yields no result
ChunkOutcomeSkip(chunk, results) ==
    SelectSeq([k \in 1..Len(chunk) |-> [i |-> chunk[k], res |-> results[k]]],
              LAMBDA item : item.res.tag = "ok")

\* the results of a chunk: the result of every compound of it, or one
\* failure when a call raised
ChunkOutcome(chunk, results) ==
    IF \E k \in 1..Len(chunk) : results[k].tag = "exc"
    THEN <<[i |-> chunk[1], res |-> [tag |-> "exc", cpds |-> EmptyDict, rxns |-> EmptyDict]]>>
    ELSE [k \in 1..Len(chunk) |-> [i |-> chunk[k], res |-> results[k]]]

ChunkResults(chunk) ==
    ChunkOutcome(chunk, [k \in 1..Len(chunk) |->
                           TransformInd(operators, generation, compound_smiles[chunk[k]])])

\* variant in which the worker writes its delta into the master dictionaries
FinishChunkShared(w) ==
    /\ pc = "par"
    /\ running[w] # <<>>
    /\ \E out \in {ChunkResults(running[w])} :
          /\ new_cpds_master' = IF out[1].res.tag = "ok"
                                 THEN MergeCpds(new_cpds_master, out[1].res.cpds)
                                 ELSE new_cpds_master
          /\ new_rxns_master' = IF out[1].res.tag = "ok"
                                 THEN MergeRxns(new_rxns_master, out[1].res.rxns)
                                 ELSE new_rxns_master
          /\ outq' = outq \o out
    /\ running' = [running EXCEPT ![w] = <<>>]
    /\ UNCHANGED <<pc, seq_i, task_next, folded>>
    /\ UNCHANGED outsideSched

\* a pool worker finishes its chunk and hands the results to the parent
FinishChunk(w) ==
    /\ pc = "par"
    /\ running[w] # <<>>
    /\ outq' = outq \o ChunkResults(running[w])
    /\ running' = [running EXCEPT ![w] = <<>>]
    /\ UNCHANGED <<pc, new_cpds_master, new_rxns_master, seq_i, task_next, folded>>
    /\ UNCHANGED outsideSched

\* lines 369-382: one iteration of the loop over imap_unordered.  A failed
\* result raises in the parent; a None result fails the unpacking of 372.
FoldResult ==
    /\ pc = "par"
    /\ outq # <<>>
    /\ \E item \in {Head(outq)} :
          IF item.res.tag # "ok"
          THEN /\ pc' = "failed"
               /\ UNCHANGED <<new_cpds_master, new_rxns_master, folded>>
          ELSE /\ new_cpds_master' = FoldCpds(item.res)
               /\ new_rxns_master' = FoldRxns(item.res)
               /\ folded' = Append(folded, item.i)
               /\ pc' = pc
    /\ outq' = Tail(outq)
    /\ UNCHANGED <<seq_i, task_next, running>>
    /\ UNCHANGED outsideSched

\* variant of line 399 that returns once every chunk has been handed out
ParReturnEarly ==
    /\ pc = "par"
    /\ task_next > N
    /\ pc' = "done"
    /\ UNCHANGED <<new_cpds_master, new_rxns_master, seq_i, task_next, running, outq, folded>>
    /\ UNCHANGED outsideSched

\* line 399 after the parallel loop: the iterator is exhausted
ParReturn ==
    /\ pc = "par"
    /\ task_next > N
    /\ outq = <<>>
    /\ \A w \in Workers : running[w] = <<>>
    /\ pc' = "done"
    /\ UNCHANGED <<new_cpds_master, new_rxns_master, seq_i, task_next, running, outq, folded>>
    /\ UNCHANGED outsideSched

Next ==
    \/ Start
    \/ SeqIter
    \/ SeqReturn
    \/ \E w \in Workers : TakeChunk(w)
    \/ \E w \in Workers : FinishChunk(w)
    \/ FoldResult
    \/ ParReturn

Spec == Init /\ [][Next]_vars

\* ------------------- one call of _transform_ind_compound_with_full, by steps
\* the call is made for the only compound of the list
InitRxn ==
    /\ compound_smiles \in [1..1 -> Smiles \cup {"SALT"}]
    /\ operators \in {q \in SeqsUpTo(RuleNames, MaxOps) : Injective(q)}
    /\ generation \in 1..MaxGen
    /\ processes = 1
    /\ SchedIdle
    /\ RxIdle
    /\ PoIdle
    /\ DbIdle
    /\ InsIdle
    /\ HashIdle
    /\ ExIdle
    /\ PtrIdle
    /\ MineIdle

\* lines 259-270
RxPrepare ==
    /\ rx_pc = "prepare"
    /\ \E p \in {PrepareMol(compound_smiles[1])} :
          /\ rx_pc' = IF p.tag = "ok" THEN "rule" ELSE "failed"
          /\ rx_mol' = p.mol
    /\ UNCHANGED <<local_cpds, local_rxns, rx_k, rx_j, rx_begin, rx_last, rx_caught>>
    /\ UNCHANGED outsideRx

\* lines 274-291 and 169-181: the call of _run_reaction for the next
\* operator, up to the product loop
RxBegin ==
    /\ rx_pc = "rule"
    /\ rx_k <= Len(operators)
    /\ \E raw \in {RawReactants(operators[rx_k], ReactantMols(rx_mol, operators[rx_k]), local_cpds, generation)} :
          /\ rx_begin' = EnterLoop(TryReactants(raw))
          /\ rx_pc' = CASE rx_begin'.tag = "loop" -> "loop"
                        [] rx_begin'.tag = "return" -> "returned"
                        [] OTHER -> "rxn_raised"
          /\ rx_caught' = (raw.tag = "exc")
    /\ rx_j' = 1
    /\ rx_last' = NoCandidate
    /\ UNCHANGED <<rx_mol, local_cpds, local_rxns, rx_k>>
    /\ UNCHANGED outsideRx

\* lines 183-218: one candidate product tuple
RxCandidate ==
    /\ rx_pc = "loop"
    /\ rx_j <= Len(rx_begin.product_sets)
    /\ \E raw \in {RawCandidate(operators[rx_k], rx_begin.reactants, rx_begin.reactant_atoms, rx_begin.product_sets[rx_j], local_cpds, local_rxns, generation)} :
       \E c \in {TryCandidate(raw)} :
          /\ rx_pc' = IF c.tag = "exc" THEN "rxn_raised" ELSE "loop"
          /\ local_cpds' = c.cpds
          /\ local_rxns' = c.rxns
          /\ rx_last' = [tag |-> "seen", accepted |-> c.accepted, products |-> c.products,
                         product_atoms |-> c.product_atoms,
                         product_mols |-> rx_begin.product_sets[rx_j],
                         shared |-> c.shared]
          /\ rx_caught' = (rx_caught \/ raw.tag = "exc")
    /\ rx_j' = rx_j + 1
    /\ UNCHANGED <<rx_mol, rx_k, rx_begin>>
    /\ UNCHANGED outsideRx

\* line 220: the product loop is over, _run_reaction returns
RxLoopEnd ==
    /\ rx_pc = "loop"
    /\ rx_j > Len(rx_begin.product_sets)
    /\ rx_pc' = "returned"
    /\ UNCHANGED <<rx_mol, local_cpds, local_rxns, rx_k, rx_j, rx_begin, rx_last, rx_caught>>
    /\ UNCHANGED outsideRx

\* lines 293-296, then the next operator
RxAfterRule ==
    /\ rx_pc = "returned"
    /\ \E a \in {AfterRule(local_cpds, local_rxns, local_cpds, local_rxns)} :
          /\ local_cpds' = a.cpds
          /\ local_rxns' = a.rxns
    /\ rx_k' = rx_k + 1
    /\ rx_pc' = "rule"
    /\ UNCHANGED <<rx_mol, rx_j, rx_begin, rx_last, rx_caught>>
    /\ UNCHANGED outsideRx

\* line 298
RxReturn ==
    /\ rx_pc = "rule"
    /\ rx_k > Len(operators)
    /\ rx_pc' = "done"
    /\ UNCHANGED <<rx_mol, local_cpds, local_rxns, rx_k, rx_j, rx_begin, rx_last, rx_caught>>
    /\ UNCHANGED outsideRx

NextRxn ==
    \/ RxPrepare
    \/ RxBegin
    \/ RxCandidate
    \/ RxLoopEnd
    \/ RxAfterRule
    \/ RxReturn

SpecRxn == InitRxn /\ [][NextRxn]_vars

\* ------------------------------ the store (databases.py, MINE.fix_rxn_pointers)
\* ids of the compound documents, and the id no document has yet
DbCpdIds == {"Ca", "Cb", "Cc"}

FreshId == "Cn"

RxnIds == {"r1", "r2", "r3"}

\* the order of the documents in the collection
RxnIndex(rid) == CASE rid = "r1" -> 1 [] rid = "r2" -> 2 [] OTHER -> 3

RxnAt(k) == CHOOSE rid \in RxnIds : RxnIndex(rid) = k

\* an entry of Reactants / Products: a [coefficient, id] list, which
\* fix_rxn_pointers subscripts with 1 (lines 68-69, 78-79), or a document
\* with the key c_id, which add_rxn_pointers reads (lines 57, 59)
EntryFormats == {"list", "dict"}

DbEntry(fmt, c_id) == [fmt |-> fmt, stoich |-> 1, c_id |-> c_id]

\* the sides of a reaction document: no id twice, at most MaxSide entries
DbSides(fmt) ==
    {side \in UNION {[1..k -> {DbEntry(fmt, c) : c \in DbCpdIds}] : k \in 1..MaxSide} :
        \A a, b \in 1..Len(side) : side[a].c_id = side[b].c_id => a = b}

SideIds(side) == {side[k].c_id : k \in 1..Len(side)}

\* the reaction documents: the two sides share no compound
DbDocs(fmt) ==
    {d \in [Reactants : DbSides(fmt), Products : DbSides(fmt)] :
        SideIds(d.Reactants) \cap SideIds(d.Products) = {}}

\* the contents of the reactions collection: at most MaxRxns documents
DbStores(fmt) ==
    UNION {[{rid \in RxnIds : RxnIndex(rid) <= k} -> DbDocs(fmt)] : k \in 0..MaxRxns}

\* the ids of the reactions of the store having c_id on the given side, in
\* the order of the collection: the list add_rxn_pointers builds (lines 55-59)
RECURSIVE PointerList(_, _, _, _)
PointerList(store, field, c_id, k) ==
    IF k > Cardinality(DOMAIN store) THEN <<>>
    ELSE (IF c_id \in SideIds(store[RxnAt(k)][field]) THEN <<RxnAt(k)>> ELSE <<>>)
            \o PointerList(store, field, c_id, k + 1)

\* the compound records for c_id: with both back-reference lists, or
\* lacking one of them or both
CompDicts(store, c_id) ==
    {[_id |-> c_id, Product_of |-> PointerList(store, "Products", c_id, 1),
      Reactant_in |-> PointerList(store, "Reactants", c_id, 1)],
     [_id |-> c_id, Product_of |-> PointerList(store, "Products", c_id, 1)],
     [_id |-> c_id, Reactant_in |-> PointerList(store, "Reactants", c_id, 1)],
     [_id |-> c_id]}

\* the id of a reaction that is no longer in the reactions collection
StaleRxn == "r0"

\* compound records whose Product_of or Reactant_in list begins with the id
\* of a reaction that has left the collection: find_one (lines 66, 76) then
\* gives None
StaleDicts(store, c_id) ==
    {[_id |-> c_id, Product_of |-> <<StaleRxn>> \o PointerList(store, "Products", c_id, 1),
      Reactant_in |-> PointerList(store, "Reactants", c_id, 1)],
     [_id |-> c_id, Product_of |-> PointerList(store, "Products", c_id, 1),
      Reactant_in |-> <<StaleRxn>> \o PointerList(store, "Reactants", c_id, 1)]}

\* variant of lines 68-69 / 78-79 without the comparison with the old id
RewriteSideAll(side, old_id, to_id) ==
    IF \E k \in 1..Len(side) : side[k].fmt = "dict"
    THEN [tag |-> "KeyError", side |-> side]
    ELSE [tag |-> "ok", side |-> [k \in 1..Len(side) |-> [side[k] EXCEPT !.c_id = to_id]]]

\* lines 67-69 / 77-79: the loop over the entries of one side.  Subscript 1
\* of a document entry raises KeyError.
RewriteSide(side, old_id, to_id) ==
    IF \E k \in 1..Len(side) : side[k].fmt = "dict"
    THEN [tag |-> "KeyError", side |-> side]
    ELSE [tag |-> "ok",
          side |-> [k \in 1..Len(side) |->
                      IF side[k].c_id = old_id THEN [side[k] EXCEPT !.c_id = to_id]
                      ELSE side[k]]]

\* the id a reaction document is stored under (reactions.py 204-207): the
\* hash rxn2hash makes of the sorted compound ids of the two sides
DocHash(doc) == <<"R", SideIds(doc.Reactants), SideIds(doc.Products)>>

\* before the call of fix_rxn_pointers(new_id, comp_dict)
InitDB ==
    /\ compound_smiles = <<>>
    /\ operators = <<>>
    /\ generation = 1
    /\ processes = 1
    /\ SchedIdle
    /\ RxIdle
    /\ PoIdle
    /\ HashIdle
    /\ ExIdle
    /\ PtrIdle
    /\ MineIdle
    /\ InsIdle
    /\ db_pc = "call"
    /\ \E fmt \in EntryFormats : db_reactions \in DbStores(fmt)
    /\ comp_dict \in CompDicts(db_reactions, "Ca") \cup StaleDicts(db_reactions, "Ca")
    /\ new_id \in {"Ca", "Cb", FreshId}
    /\ db_i = 1
    /\ db_old = comp_dict._id
    /\ db_hash = [rid \in DOMAIN db_reactions |-> DocHash(db_reactions[rid])]
    /\ \A a, b \in DOMAIN db_reactions : db_hash[a] = db_hash[b] => a = b

\* variant of line 63 without the comparison of the ids
FixBeginAlways ==
    /\ db_pc = "call"
    /\ db_pc' = IF Cardinality(DOMAIN db_reactions) # 0 THEN "products" ELSE "setid"
    /\ UNCHANGED <<db_reactions, comp_dict, new_id, db_i, db_old, db_hash>>
    /\ UNCHANGED outsideDb

\* line 63
FixBegin ==
    /\ db_pc = "call"
    /\ db_pc' = IF Cardinality(DOMAIN db_reactions) # 0 /\ new_id # comp_dict._id
                THEN "products" ELSE "setid"
    /\ UNCHANGED <<db_reactions, comp_dict, new_id, db_i, db_old, db_hash>>
    /\ UNCHANGED outsideDb

\* lines 64-72 / 74-82: one step of the walk over comp_dict[field], which
\* rewrites the given side of the reactions.  A KeyError ends the walk
\* (except KeyError: pass); a reaction find_one does not find gives None,
\* and subscripting None raises TypeError, which leaves the function.
FixStep(field, side_name, next_pc) ==
    IF field \notin DOMAIN comp_dict
    THEN /\ db_pc' = next_pc
         /\ db_i' = 1
         /\ UNCHANGED db_reactions
    ELSE IF db_i > Len(comp_dict[field])
    THEN /\ db_pc' = next_pc
         /\ db_i' = 1
         /\ UNCHANGED db_reactions
    ELSE IF comp_dict[field][db_i] \notin DOMAIN db_reactions
    THEN /\ db_pc' = "raised"
         /\ UNCHANGED <<db_reactions, db_i>>
    ELSE \E r \in {RewriteSide(db_reactions[comp_dict[field][db_i]][side_name], comp_dict._id, new_id)} :
            IF r.tag = "KeyError"
            THEN /\ db_pc' = next_pc
                 /\ db_i' = 1
                 /\ UNCHANGED db_reactions
            ELSE /\ db_reactions' = [db_reactions EXCEPT ![comp_dict[field][db_i]][side_name] = r.side]
                 /\ db_i' = db_i + 1
                 /\ db_pc' = db_pc

\* lines 64-72
FixProduct ==
    /\ db_pc = "products"
    /\ FixStep("Product_of", "Products", "reactants")
    /\ UNCHANGED <<comp_dict, new_id, db_old, db_hash>>
    /\ UNCHANGED outsideDb

\* lines 74-82
FixReactant ==
    /\ db_pc = "reactants"
    /\ FixStep("Reactant_in", "Reactants", "setid")
    /\ UNCHANGED <<comp_dict, new_id, db_old, db_hash>>
    /\ UNCHANGED outsideDb

\* lines 84-86
FixReturn ==
    /\ db_pc = "setid"
    /\ comp_dict' = [comp_dict EXCEPT !._id = new_id]
    /\ db_pc' = "returned"
    /\ UNCHANGED <<db_reactions, new_id, db_i, db_old, db_hash>>
    /\ UNCHANGED outsideDb

NextDB ==
    \/ FixBegin
    \/ FixProduct
    \/ FixReactant
    \/ FixReturn

SpecDB == InitDB /\ [][NextDB]_vars

\* --------------------------------- the store (MINE.add_rxn_pointers)
\* compound documents that have no back-references yet
PtrCompounds(ids) == [c \in ids |-> [_id |-> c]]

\* variant of lines 57 / 59 that pushes into Reactant_in on both sides
PushReactant(doc, field, rid) ==
    IF "Reactant_in" \in DOMAIN doc THEN [doc EXCEPT !.Reactant_in = Append(@, rid)]
    ELSE Put(doc, "Reactant_in", <<rid>>)

\* lines 57 / 59, {'$push': {field: reaction['_id']}}: the id is appended to
\* the list of the document, which is created when the field is missing
Push(doc, field, rid) ==
    IF field \in DOMAIN doc THEN [doc EXCEPT ![field] = Append(@, rid)]
    ELSE Put(doc, field, <<rid>>)

\* lines 56-57 / 58-59: the loop over the entries of one side from entry k
\* on; update changes the document with the _id of the entry, and changes
\* nothing when the collection has no such document
RECURSIVE PushAll(_, _, _, _, _)
PushAll(compounds, side, field, rid, k) ==
    IF k > Len(side) THEN compounds
    ELSE PushAll(IF side[k].c_id \in DOMAIN compounds
                 THEN [compounds EXCEPT ![side[k].c_id] = Push(@, field, rid)]
                 ELSE compounds,
                 side, field, rid, k + 1)

\* before the first call of add_rxn_pointers: a reactions collection, and a
\* compounds collection without back-references that has a document for
\* every compound, or for every compound but one
InitPtr ==
    /\ compound_smiles = <<>>
    /\ operators = <<>>
    /\ generation = 1
    /\ processes = 1
    /\ SchedIdle
    /\ RxIdle
    /\ PoIdle
    /\ HashIdle
    /\ ExIdle
    /\ MineIdle
    /\ db_pc = "idle"
    /\ \E fmt \in EntryFormats : db_reactions \in DbStores(fmt)
    /\ comp_dict = [_id |-> "none"]
    /\ new_id = "none"
    /\ db_i = 1
    /\ db_old = "none"
    /\ db_hash = [rid \in DOMAIN db_reactions |-> DocHash(db_reactions[rid])]
    /\ ins_pc = "off"
    /\ ins_smiles = "none"
    /\ db_compounds \in {PtrCompounds(DbCpdIds), PtrCompounds(DbCpdIds \ {"Cc"})}
    /\ ptr_pc = "call"
    /\ ptr_i = 1
    /\ ptr_runs = 0
    /\ ptr_once = EmptyDict

\* lines 53-55: a call begins, the cursor is opened
PtrCall ==
    /\ ptr_pc \in {"call", "returned"}
    /\ ptr_runs < MaxRuns
    /\ ptr_pc' = "cursor"
    /\ ptr_i' = 1
    /\ UNCHANGED <<ptr_runs, ptr_once, dbVars, insVars>>
    /\ UNCHANGED outsidePtr

\* lines 55-59 for one reaction document: compound["c_id"] on a
\* [coefficient, id] list raises TypeError, which leaves the function
PtrReaction ==
    /\ ptr_pc = "cursor"
    /\ ptr_i <= Cardinality(DOMAIN db_reactions)
    /\ \E reaction \in {db_reactions[RxnAt(ptr_i)]} :
          IF reaction.Reactants[1].fmt = "list"
          THEN /\ ptr_pc' = "raised"
               /\ UNCHANGED <<ptr_i, db_compounds>>
          ELSE /\ db_compounds' = PushAll(PushAll(db_compounds, reaction.Reactants, "Reactant_in", RxnAt(ptr_i), 1),
                                          reaction.Products, "Product_of", RxnAt(ptr_i), 1)
               /\ ptr_i' = ptr_i + 1
               /\ ptr_pc' = ptr_pc
    /\ UNCHANGED <<ptr_runs, ptr_once, dbVars, ins_pc, ins_smiles>>
    /\ UNCHANGED outsidePtr

\* line 60: the cursor is exhausted, the call returns
PtrReturn ==
    /\ ptr_pc = "cursor"
    /\ ptr_i > Cardinality(DOMAIN db_reactions)
    /\ ptr_pc' = "returned"
    /\ ptr_runs' = ptr_runs + 1
    /\ ptr_once' = IF ptr_runs = 0 THEN db_compounds ELSE ptr_once
    /\ UNCHANGED <<ptr_i, dbVars, insVars>>
    /\ UNCHANGED outsidePtr

NextPtr ==
    \/ PtrCall
    \/ PtrReaction
    \/ PtrReturn

SpecPtr == InitPtr /\ [][NextPtr]_vars

\* --------------------------------------- two calls of compound_hash (utils)
\* the compound types compound_hash is called with
CpdTypes == {"Coreactant", "Target Compound", "Predicted", "Starting Compound"}

\* the arguments of one call: the structure the SMILES stands for, the type
CpdHashArgs == [mol : Mols, cpd_type : CpdTypes]

\* one call: MolToInchiKey raises on a structure that cannot be hashed
CpdHashCall(arg) ==
    IF MolKind(arg.mol) = "nohash" THEN <<"exc">>
    ELSE <<"ok", CompoundHash(arg.mol, arg.cpd_type)>>

InitCpdHash ==
    /\ compound_smiles = <<>>
    /\ operators = <<>>
    /\ generation = 1
    /\ processes = 1
    /\ SchedIdle
    /\ RxIdle
    /\ PoIdle
    /\ DbIdle
    /\ InsIdle
    /\ ExIdle
    /\ PtrIdle
    /\ MineIdle
    /\ h_pc = "call"
    /\ h_left \in CpdHashArgs
    /\ h_right \in CpdHashArgs
    /\ h_out = <<>>

\* utils.compound_hash called on the first and on the second compound
CpdHashBoth ==
    /\ h_pc = "call"
    /\ h_out' = <<CpdHashCall(h_left), CpdHashCall(h_right)>>
    /\ h_pc' = "hashed"
    /\ UNCHANGED <<h_left, h_right>>
    /\ UNCHANGED outsideHash

NextCpdHash == CpdHashBoth

SpecCpdHash == InitCpdHash /\ [][NextCpdHash]_vars

\* ------------------------------------------------ prevent_overwrite (utils)
\* A path is the list of its pieces between the dots, as str.split(".")
\* gives them; a piece is its text followed by a number of "_new".
\* The paths "out", "out.tsv" and "./out".
PoInputs ==
    {<< <<"out", 0>> >>, << <<"out", 0>>, <<"tsv", 0>> >>, << <<"", 0>>, <<"/out", 0>> >>}

\* piece + "_new"
AddNew(piece) == <<piece[1], piece[2] + 1>>

\* lines 260-267: one pass of the loop of prevent_overwrite
NextPath(path) ==
    IF Len(path) > 1 THEN [path EXCEPT ![Len(path) - 1] = AddNew(@)]
    ELSE [path EXCEPT ![1] = AddNew(@)]

\* the path after k passes of the loop
RECURSIVE Renamed(_, _)
Renamed(path, k) == IF k = 0 THEN path ELSE Renamed(NextPath(path), k - 1)

\* path + "_new" * k
Suffixed(path, k) == [path EXCEPT ![Len(path)] = <<@[1], @[2] + k>>]

\* the files there can be next to the input: the input with up to MaxNew
\* "_new" in front of the last dot or at the end
PoPaths(path) == {Renamed(path, k) : k \in 0..MaxNew} \cup {Suffixed(path, k) : k \in 0..MaxNew}

InitPo ==
    /\ compound_smiles = <<>>
    /\ operators = <<>>
    /\ generation = 1
    /\ processes = 1
    /\ SchedIdle
    /\ RxIdle
    /\ DbIdle
    /\ InsIdle
    /\ HashIdle
    /\ ExIdle
    /\ PtrIdle
    /\ MineIdle
    /\ po_pc = "test"
    /\ po_input \in PoInputs
    /\ write_path = po_input
    /\ po_exists \in SUBSET PoPaths(po_input)
    /\ po_iter = 0

\* lines 259-267: the path exists, "_new" is put in
PoRename ==
    /\ po_pc = "test"
    /\ write_path \in po_exists
    /\ write_path' = NextPath(write_path)
    /\ po_iter' = po_iter + 1
    /\ UNCHANGED <<po_pc, po_input, po_exists>>
    /\ UNCHANGED outsidePo

\* lines 259 and 268: the path does not exist, it is returned
PoReturn ==
    /\ po_pc = "test"
    /\ write_path \notin po_exists
    /\ po_pc' = "returned"
    /\ UNCHANGED <<po_input, write_path, po_exists, po_iter>>
    /\ UNCHANGED outsidePo

NextPo ==
    \/ PoRename
    \/ PoReturn

SpecPo == InitPo /\ [][NextPo]_vars

\* ------------------------------------------------ MINE.insert_compound
\* the canonical SMILES AllChem.MolToSmiles gives for the structures inserted
InsSmiles == {"sa", "sb", "sn"}

\* lines 149-153: the prefix followed by the SHA-1 digest of the SMILES
Sha1Id(prefix, smiles) ==
    IF prefix = "C"
    THEN (IF smiles = "sa" THEN "Ca" ELSE IF smiles = "sb" THEN "Cb" ELSE FreshId)
    ELSE (IF smiles = "sa" THEN "Xa" ELSE IF smiles = "sb" THEN "Xb" ELSE "Xn")

\* variant of line 151 that takes every id for the id of a coreactant
HasXAlways(c_id) == TRUE

\* line 151: "X" in compound_dict['_id']
HasX(c_id) == c_id \in {"Xa", "Xb", "Xn"}

\* lines 157-169: link_to_external_database merges the fields of a matching
\* compound of an external database into the record (dict_merge: the values
\* are added to the set the record has under the key)
Linked(record, matched, smiles) ==
    IF ~matched THEN record
    ELSE IF "Names" \in DOMAIN record THEN [record EXCEPT !.Names = @ \cup {smiles}]
    ELSE Put(record, "Names", {smiles})

\* before the call of insert_compound(mol_object, compound_dict): the record
\* of a compound of the store with its back-references, of a coreactant no
\* reaction names, or a record without _id; a record with an id is in the
\* compounds collection under that id
InitIns ==
    /\ compound_smiles = <<>>
    /\ operators = <<>>
    /\ generation = 1
    /\ processes = 1
    /\ SchedIdle
    /\ RxIdle
    /\ PoIdle
    /\ HashIdle
    /\ ExIdle
    /\ PtrIdle
    /\ MineIdle
    /\ db_pc = "idle"
    /\ \E fmt \in EntryFormats : db_reactions \in DbStores(fmt)
    /\ comp_dict \in CompDicts(db_reactions, "Ca") \cup CompDicts(db_reactions, "Xa") \cup {EmptyDict}
    /\ new_id = "none"
    /\ db_i = 1
    /\ db_old = "none"
    /\ db_hash = [rid \in DOMAIN db_reactions |-> DocHash(db_reactions[rid])]
    /\ \A a, b \in DOMAIN db_reactions : db_hash[a] = db_hash[b] => a = b
    /\ ins_pc = "call"
    /\ ins_smiles \in InsSmiles
    /\ db_compounds = IF "_id" \in DOMAIN comp_dict THEN Put(EmptyDict, comp_dict._id, comp_dict)
                      ELSE EmptyDict

\* lines 139-155: the computed fields are written into the record, then
\* fix_rxn_pointers is called with the hashed id (or the id is set, for a
\* record without one)
InsBegin ==
    /\ ins_pc = "call"
    /\ IF "_id" \in DOMAIN comp_dict
       THEN /\ comp_dict' = Put(comp_dict, "SMILES", ins_smiles)
            /\ new_id' = Sha1Id(IF HasX(comp_dict._id) THEN "X" ELSE "C", ins_smiles)
            /\ db_old' = comp_dict._id
            /\ db_pc' = "call"
            /\ ins_pc' = "fixing"
       ELSE /\ comp_dict' = Put(Put(comp_dict, "SMILES", ins_smiles), "_id", Sha1Id("C", ins_smiles))
            /\ ins_pc' = "fixed"
            /\ UNCHANGED <<new_id, db_old, db_pc>>
    /\ UNCHANGED <<db_reactions, db_i, db_hash, ins_smiles, db_compounds>>
    /\ UNCHANGED outsideIns

\* lines 157-178, once fix_rxn_pointers has returned: fields of matching
\* external compounds are copied in, the MINE_id is looked up or drawn, and
\* the record is saved into the compounds collection under its _id
InsSave ==
    /\ \/ ins_pc = "fixing" /\ db_pc = "returned"
       \/ ins_pc = "fixed"
    /\ \E mine_id \in {0, 1}, matched \in BOOLEAN :
          \E record \in {Put(Linked(comp_dict, matched, ins_smiles), "MINE_id", mine_id)} :
              /\ comp_dict' = record
              /\ db_compounds' = Put(db_compounds, comp_dict._id, record)
    /\ ins_pc' = "saved"
    /\ UNCHANGED <<db_pc, db_reactions, new_id, db_i, db_old, db_hash, ins_smiles>>
    /\ UNCHANGED outsideIns

NextIns ==
    \/ InsBegin
    \/ FixBegin
    \/ FixProduct
    \/ FixReactant
    \/ FixReturn
    \/ InsSave

SpecIns == InitIns /\ [][NextIns]_vars

\* ---------- calls of insert_compound(mol_object) without compound_dict
\* line 125, compound_dict={}: the default is one dictionary, made when the
\* function is defined, which every call without the argument works on.
\* Before the first such call it is empty; the store has at most one
\* reaction, of one reactant and one product.
InitDef ==
    /\ compound_smiles = <<>>
    /\ operators = <<>>
    /\ generation = 1
    /\ processes = 1
    /\ SchedIdle
    /\ RxIdle
    /\ PoIdle
    /\ HashIdle
    /\ ExIdle
    /\ PtrIdle
    /\ MineIdle
    /\ db_pc = "idle"
    /\ \E fmt \in EntryFormats :
          db_reactions \in {store \in DbStores(fmt) :
                              /\ Cardinality(DOMAIN store) <= 1
                              /\ \A rid \in DOMAIN store :
                                    Len(store[rid].Reactants) = 1 /\ Len(store[rid].Products) = 1}
    /\ comp_dict = EmptyDict
    /\ new_id = "none"
    /\ db_i = 1
    /\ db_old = "none"
    /\ db_hash = [rid \in DOMAIN db_reactions |-> DocHash(db_reactions[rid])]
    /\ ins_pc = "call"
    /\ ins_smiles \in InsSmiles
    /\ db_compounds = EmptyDict

\* line 125: the next call without compound_dict; compound_dict is the
\* dictionary the call before has left
InsCallAgain ==
    /\ ins_pc = "saved"
    /\ ins_pc' = "call"
    /\ ins_smiles' \in InsSmiles
    /\ db_pc' = "idle"
    /\ new_id' = "none"
    /\ db_old' = "none"
    /\ db_i' = 1
    /\ UNCHANGED <<comp_dict, db_reactions, db_hash, db_compounds>>
    /\ UNCHANGED outsideIns

NextDef ==
    \/ InsBegin
    \/ FixBegin
    \/ FixProduct
    \/ FixReactant
    \/ FixReturn
    \/ InsSave
    \/ InsCallAgain

SpecDef == InitDef /\ [][NextDef]_vars

\* ------------------- MINE.insert_compound, lines 171-178: the MINE_id
\* the processes that run insert_compound against the same id database
Inserters == 1..MaxInserters

\* the records at line 171: _id from the SMILES (lines 149-156), Inchikey
\* from the InChI (line 141).  The records a and c are two SMILES of one
\* Inchikey.
MineCpds ==
    {[_id |-> "Ca", Inchikey |-> "ka"], [_id |-> "Cb", Inchikey |-> "kb"],
     [_id |-> "Cc", Inchikey |-> "ka"]}

\* the id database as earlier calls, one after the other, have left it
MineDbs ==
    {EmptyDict,
     Put(EmptyDict, "Ca", [_id |-> "Ca", Inchikey |-> "ka", MINE_id |-> 0]),
     Put(EmptyDict, "Cb", [_id |-> "Cb", Inchikey |-> "kb", MINE_id |-> 0])}

\* every inserter stands in front of line 172 with its record
InitMine ==
    /\ compound_smiles = <<>>
    /\ operators = <<>>
    /\ generation = 1
    /\ processes = 1
    /\ SchedIdle
    /\ RxIdle
    /\ PoIdle
    /\ DbIdle
    /\ HashIdle
    /\ ExIdle
    /\ PtrIdle
    /\ InsIdle
    /\ mi_pc = [p \in Inserters |-> "find"]
    /\ mi_cpd \in [Inserters -> MineCpds]
    /\ mi_id = [p \in Inserters |-> -1]
    /\ id_db \in MineDbs

\* lines 172-174: find_one by Inchikey; a document found gives its MINE_id
MineFind(p) ==
    /\ mi_pc[p] = "find"
    /\ IF \E c \in DOMAIN id_db : id_db[c].Inchikey = mi_cpd[p].Inchikey
       THEN \E c \in DOMAIN id_db :
               /\ id_db[c].Inchikey = mi_cpd[p].Inchikey
               /\ mi_id' = [mi_id EXCEPT ![p] = id_db[c].MINE_id]
               /\ mi_pc' = [mi_pc EXCEPT ![p] = "store"]
       ELSE /\ mi_pc' = [mi_pc EXCEPT ![p] = "count"]
            /\ UNCHANGED mi_id
    /\ UNCHANGED <<mi_cpd, id_db, insVars>>
    /\ UNCHANGED outsideMine

\* line 176: the MINE_id is the number of documents of the id database
MineCount(p) ==
    /\ mi_pc[p] = "count"
    /\ mi_id' = [mi_id EXCEPT ![p] = Cardinality(DOMAIN id_db)]
    /\ mi_pc' = [mi_pc EXCEPT ![p] = "save"]
    /\ UNCHANGED <<mi_cpd, id_db, insVars>>
    /\ UNCHANGED outsideMine

\* line 177: the record is saved into the id database under its _id
MineSave(p) ==
    /\ mi_pc[p] = "save"
    /\ id_db' = Put(id_db, mi_cpd[p]._id, Put(mi_cpd[p], "MINE_id", mi_id[p]))
    /\ mi_pc' = [mi_pc EXCEPT ![p] = "store"]
    /\ UNCHANGED <<mi_cpd, mi_id, insVars>>
    /\ UNCHANGED outsideMine

\* line 178: the record is saved into the compounds collection
MineStore(p) ==
    /\ mi_pc[p] = "store"
    /\ db_compounds' = Put(db_compounds, mi_cpd[p]._id, Put(mi_cpd[p], "MINE_id", mi_id[p]))
    /\ mi_pc' = [mi_pc EXCEPT ![p] = "done"]
    /\ UNCHANGED <<mi_cpd, mi_id, id_db, ins_pc, ins_smiles>>
    /\ UNCHANGED outsideMine

NextMine ==
    \/ \E p \in Inserters : MineFind(p)
    \/ \E p \in Inserters : MineCount(p)
    \/ \E p \in Inserters : MineSave(p)
    \/ \E p \in Inserters : MineStore(p)

SpecMine == InitMine /\ [][NextMine]_vars

\* ------------------------------------------- two calls of rxn2hash (utils)
\* the compound records the half-reactions are made of
HashCpds == {[_id |-> <<"C", n>>, SMILES |-> n] : n \in 1..MaxHashCpds}

\* a half-reaction as _make_half_rxn returns it: (coefficient, record)
\* pairs, no compound twice
HashSides ==
    {side \in UNION {[1..k -> (1..MaxCoef) \X HashCpds] : k \in 1..MaxHashCpds} :
        \A a, b \in 1..Len(side) : side[a][2]._id = side[b][2]._id => a = b}

HashArgs == [reactants : HashSides, products : HashSides]

InitHash ==
    /\ compound_smiles = <<>>
    /\ operators = <<>>
    /\ generation = 1
    /\ processes = 1
    /\ SchedIdle
    /\ RxIdle
    /\ PoIdle
    /\ DbIdle
    /\ InsIdle
    /\ ExIdle
    /\ PtrIdle
    /\ MineIdle
    /\ h_pc = "call"
    /\ h_left \in HashArgs
    /\ h_right \in HashArgs
    /\ h_out = <<>>

\* utils.rxn2hash called on the first and on the second reaction
HashBoth ==
    /\ h_pc = "call"
    /\ h_out' = <<Rxn2Hash(h_left.reactants, h_left.products),
                  Rxn2Hash(h_right.reactants, h_right.products)>>
    /\ h_pc' = "hashed"
    /\ UNCHANGED <<h_left, h_right>>
    /\ UNCHANGED outsideHash

NextHash == HashBoth

SpecHash == InitHash /\ [][NextHash]_vars

\* ------------------- the expansion loop over generations (from the design)
\* variant that looks at the frontier only
StopsWhenEmpty(frontier, g, max_generations) == frontier = <<>>

\* the loop ends when the frontier is empty or the next generation exceeds
\* the configured maximum
StopsAfter(frontier, g, max_generations) == frontier = <<>> \/ g + 1 > max_generations

\* the seed records: generation 0, expandable
SeedRecord(p) ==
    [_id |-> CompoundHash(p.mol, "Predicted"), SMILES |-> p.mol, Type |-> "Starting Compound",
     Generation |-> 0, atom_count |-> GetAtomCount(p.mol), Expand |-> TRUE]

\* one round: the deltas of the frontier compounds, folded in list order as
\* transform_all_compounds_with_full folds them
RECURSIVE RoundFold(_, _, _, _, _)
RoundStep(front, ops, gen, acc, k, res) ==
    IF res.tag # "ok" THEN [tag |-> "exc", cpds |-> acc.cpds, rxns |-> acc.rxns]
    ELSE RoundFold(front, ops, gen, k + 1,
                   [tag |-> "ok", cpds |-> MergeCpds(acc.cpds, res.cpds),
                    rxns |-> MergeRxns(acc.rxns, res.rxns)])

RoundFold(front, ops, gen, k, acc) ==
    IF k > Len(front) THEN acc
    ELSE RoundStep(front, ops, gen, acc, k, TransformMol(ops, gen, front[k]))

\* Merging: a compound id or reaction id not in the graph is inserted as it
\* is; the record of an id already present stays
InsertAbsent(graph, delta) ==
    [x \in (DOMAIN graph) \cup (DOMAIN delta) |-> IF x \in DOMAIN graph THEN graph[x] ELSE delta[x]]

\* the new frontier: the compounds first inserted by the round that are
\* expandable, in the order of their ids
NewFrontier(graph, delta) ==
    LET fresh == {x \in (DOMAIN delta) \ (DOMAIN graph) : delta[x].Expand}
        RECURSIVE Listed(_)
        Listed(S) == IF S = {} THEN <<>>
                     ELSE LET x == CHOOSE y \in S : \A z \in S : IdKey(y) <= IdKey(z)
                          IN <<[tag |-> "ok", mol |-> delta[x].SMILES]>> \o Listed(S \ {x})
    IN Listed(fresh)

InitExp ==
    /\ compound_smiles \in {q \in SeqsUpTo(Smiles, MaxSeeds) : Injective(q)}
    /\ operators \in {q \in SeqsUpTo(RuleNames, MaxOps) : Injective(q)}
    /\ generation = 1
    /\ processes = 1
    /\ SchedIdle
    /\ RxIdle
    /\ PoIdle
    /\ DbIdle
    /\ InsIdle
    /\ HashIdle
    /\ PtrIdle
    /\ MineIdle
    /\ ex_pc = "start"
    /\ ex_max \in 0..MaxGenerations
    /\ ex_g = 0
    /\ ex_cpds = EmptyDict
    /\ ex_rxns = EmptyDict
    /\ ex_frontier = [k \in 1..Len(compound_smiles) |-> PrepareMol(compound_smiles[k])]
    /\ ex_delta = [tag |-> "none"]
    /\ ex_rounds = 0

\* the seeds are loaded into the graph; the loop is entered unless it is
\* over at once
ExStart ==
    /\ ex_pc = "start"
    /\ IF \E k \in 1..Len(ex_frontier) : ex_frontier[k].tag # "ok"
       THEN /\ ex_pc' = "failed"
            /\ UNCHANGED ex_cpds
       ELSE /\ ex_cpds' = [x \in {SeedRecord(ex_frontier[k])._id : k \in 1..Len(ex_frontier)} |->
                             SeedRecord(CHOOSE p \in {ex_frontier[k] : k \in 1..Len(ex_frontier)} :
                                           SeedRecord(p)._id = x /\
                                           \A q \in {ex_frontier[k] : k \in 1..Len(ex_frontier)} :
                                              SeedRecord(q)._id = x => p.mol <= q.mol)]
            /\ ex_pc' = IF StopsAfter(ex_frontier, ex_g, ex_max) THEN "done" ELSE "idle"
    /\ UNCHANGED <<ex_max, ex_g, ex_rxns, ex_frontier, ex_delta, ex_rounds>>
    /\ UNCHANGED outsideEx

\* Idle -> Expanding(g): the frontier is crossed with the rule library
ExBegin ==
    /\ ex_pc = "idle"
    /\ ex_pc' = "expanding"
    /\ ex_rounds' = ex_rounds + 1
    /\ UNCHANGED <<ex_max, ex_g, ex_cpds, ex_rxns, ex_frontier, ex_delta>>
    /\ UNCHANGED outsideEx

\* Expanding(g) -> Merging(g): the work items are processed
ExExpand ==
    /\ ex_pc = "expanding"
    /\ \E d \in {RoundFold(ex_frontier, operators, ex_g + 1, 1,
                             [tag |-> "ok", cpds |-> EmptyDict, rxns |-> EmptyDict])} :
          /\ ex_delta' = d
          /\ ex_pc' = IF d.tag = "ok" THEN "merging" ELSE "failed"
    /\ UNCHANGED <<ex_max, ex_g, ex_cpds, ex_rxns, ex_frontier, ex_rounds>>
    /\ UNCHANGED outsideEx

\* Merging(g) -> Idle | Done
ExMerge ==
    /\ ex_pc = "merging"
    /\ ex_cpds' = InsertAbsent(ex_cpds, ex_delta.cpds)
    /\ ex_rxns' = InsertAbsent(ex_rxns, ex_delta.rxns)
    /\ ex_frontier' = NewFrontier(ex_cpds, ex_delta.cpds)
    /\ ex_g' = ex_g + 1
    /\ ex_pc' = IF StopsAfter(ex_frontier', ex_g', ex_max) THEN "done" ELSE "idle"
    /\ UNCHANGED <<ex_max, ex_delta, ex_rounds>>
    /\ UNCHANGED outsideEx

NextExp ==
    \/ ExStart
    \/ ExBegin
    \/ ExExpand
    \/ ExMerge

SpecExp == InitExp /\ [][NextExp]_vars

\* ------------------------------------- properties of the merge (under Spec)
\* the delta of the compound at list index i
Delta(i) == TransformInd(operators, generation, compound_smiles[i])

\* lines 385-397 as a fold over the list indices k..N, in list order
RECURSIVE FoldFrom(_, _, _)
FoldFrom(k, cpds, rxns) ==
    IF k > N THEN [cpds |-> cpds, rxns |-> rxns]
    ELSE FoldFrom(k + 1, MergeCpds(cpds, Delta(k).cpds), MergeRxns(rxns, Delta(k).rxns))

ListOrderFold == FoldFrom(1, EmptyDict, EmptyDict)

\* the sequential loop raises at the first compound whose call fails
SeqOutcome == IF \E i \in 1..N : Delta(i).tag # "ok" THEN "failed" ELSE "done"

\* positions of the fold history whose delta holds the compound / reaction
FoldsWithCpd(cpd_id) == {k \in 1..Len(folded) : cpd_id \in DOMAIN Delta(folded[k]).cpds}

FoldsWithRxn(rxn) == {k \in 1..Len(folded) : rxn \in DOMAIN Delta(folded[k]).rxns}

\* the least position of a non-empty set of positions
FirstOf(positions) == CHOOSE k \in positions : \A j \in positions : k <= j

\* C1: the content of the master dictionaries after the merge does not depend
\* on the order in which the deltas were folded: it is the content the fold
\* in list order gives.
C1_MergeOrderIndependent ==
    pc = "done" =>
        /\ new_cpds_master = ListOrderFold.cpds
        /\ new_rxns_master = ListOrderFold.rxns

\* C2: whatever the number of processes and the completion order of the
\* workers, the call ends as the sequential loop ends, and when it returns
\* the master dictionaries hold the compound ids and the reaction ids the
\* sequential loop gives.
C2_SameIdsAnyProcesses ==
    /\ pc = "done" =>
          /\ SeqOutcome = "done"
          /\ DOMAIN new_cpds_master = DOMAIN ListOrderFold.cpds
          /\ DOMAIN new_rxns_master = DOMAIN ListOrderFold.rxns
    /\ pc = "failed" => SeqOutcome = "failed"

\* a parallel run has returned after folding two deltas against list order
C2_Witness ==
    /\ pc = "done"
    /\ processes > 1
    /\ \E a, b \in 1..Len(folded) : a < b /\ folded[a] > folded[b]
    /\ new_rxns_master # EmptyDict
    /\ Cardinality(DOMAIN new_cpds_master) > 1

\* C3: the Operators of a master reaction is the union of the Operators of
\* that reaction in every delta folded so far.
C3_OperatorsUnion ==
    \A rxn \in DOMAIN new_rxns_master :
        new_rxns_master[rxn].Operators =
            UNION {Delta(folded[k]).rxns[rxn].Operators : k \in FoldsWithRxn(rxn)}

\* C4: the master record of a compound id is the record of the first folded
\* delta that held the id; later deltas with the id do not replace it.
C4_FirstRecordKept ==
    \A cpd_id \in DOMAIN new_cpds_master :
        new_cpds_master[cpd_id] =
            Delta(folded[FirstOf(FoldsWithCpd(cpd_id))]).cpds[cpd_id]

\* C10: a list holding a SMILES that cannot be parsed does not make the
\* generation fail.
C10_UnparsableSkipped ==
    (\E i \in 1..N : MolFromSmiles(compound_smiles[i]) = 0) => pc # "failed"

\* C11: a delta is never folded silently when it holds a reaction id that an
\* earlier folded delta holds with other Reactants or other Products: every
\* two folded deltas agree on the lists of the reaction ids they share (a
\* mismatch would have stopped the run before the fold).
C11_MismatchIsFatal ==
    \A a, b \in 1..Len(folded) :
        \A rxn \in (DOMAIN Delta(folded[a]).rxns) \cap (DOMAIN Delta(folded[b]).rxns) :
            /\ Delta(folded[a]).rxns[rxn].Reactants = Delta(folded[b]).rxns[rxn].Reactants
            /\ Delta(folded[a]).rxns[rxn].Products = Delta(folded[b]).rxns[rxn].Products

\* C14: when the call of _transform_ind_compound_with_full fails for some
\* compound of the list, transform_all_compounds_with_full never returns:
\* the deltas folded before the failure are not handed to the caller.
C14_FailureReturnsNothing ==
    (\E i \in 1..N : Delta(i).tag # "ok") => pc # "done"

\* the function has raised after it had folded the deltas of other compounds
C14_Witness ==
    /\ pc = "failed"
    /\ folded # <<>>
    /\ new_cpds_master # EmptyDict

\* C15: a step of a worker (it takes a chunk, or hands over its results)
\* leaves the master dictionaries as they are; the master dictionaries
\* change only in a step of the orchestrating loop that folds exactly one
\* delta; and every result a worker hands over is the delta computed from
\* empty local dictionaries and the arguments alone.
C15_NoSharedState ==
    [][/\ (running' # running \/ task_next' # task_next \/ Len(outq') > Len(outq))
            => (new_cpds_master' = new_cpds_master /\ new_rxns_master' = new_rxns_master)
       /\ (new_cpds_master' # new_cpds_master \/ new_rxns_master' # new_rxns_master)
            => (Len(folded') = Len(folded) + 1 /\ running' = running)
       /\ \A k \in 1..Len(outq') :
             outq'[k].res.tag = "ok" =>
                outq'[k].res = TransformMol(operators, generation,
                                            PrepareMol(compound_smiles[outq'[k].i]))]_vars

\* two workers are at work at once while the master dictionaries already
\* hold a folded delta
C15_Witness ==
    /\ pc = "par"
    /\ \E v, w \in Workers : v # w /\ running[v] # <<>> /\ running[w] # <<>>
    /\ new_cpds_master # EmptyDict

\* C27: when transform_all_compounds_with_full has returned, in the
\* sequential and in the parallel branch, the delta of every compound of the
\* list has been folded into the master dictionaries, once each, no worker
\* holds a chunk and no result waits to be folded.
C27_GenerationBarrier ==
    pc = "done" =>
        /\ Len(folded) = N
        /\ {folded[k] : k \in 1..Len(folded)} = 1..N
        /\ \A w \in Workers : running[w] = <<>>
        /\ outq = <<>>
        /\ processes = 1 => seq_i > N
        /\ processes > 1 => task_next > N

\* the parallel branch has returned after folding, out of list order, the
\* deltas of three compounds
C27_Witness ==
    /\ pc = "done"
    /\ processes > 1
    /\ Len(folded) = 3
    /\ folded[1] # 1
    /\ new_cpds_master # EmptyDict

\* the ids of the coreactant dictionary
CoreactantIds == {CoreactantId(tok) : tok \in CoreactantTokens}

\* C32: after every merge step, each compound id in the Products of a
\* reaction of the master reaction dictionary is a key of the master
\* compound dictionary or the id of a coreactant.
C32_ProductsAreKnown ==
    \A rxn \in DOMAIN new_rxns_master :
        \A k \in 1..Len(new_rxns_master[rxn].Products) :
            new_rxns_master[rxn].Products[k][2] \in (DOMAIN new_cpds_master) \cup CoreactantIds

\* the call has returned after folding two deltas or more; the master
\* reactions name a predicted product and a coreactant product
C32_Witness ==
    /\ pc = "done"
    /\ Len(folded) >= 2
    /\ \E rxn \in DOMAIN new_rxns_master :
          \E k \in 1..Len(new_rxns_master[rxn].Products) :
              new_rxns_master[rxn].Products[k][2] \in DOMAIN new_cpds_master
    /\ \E rxn \in DOMAIN new_rxns_master :
          \E k \in 1..Len(new_rxns_master[rxn].Products) :
              new_rxns_master[rxn].Products[k][2] \in CoreactantIds

\* how often list index i is held by a worker, waits as a result, or has
\* been folded
TimesHanded(i) ==
    Cardinality({<<w, k>> \in Workers \X (1..N) : k <= Len(running[w]) /\ running[w][k] = i})
    + Cardinality({k \in 1..Len(outq) : outq[k].i = i})
    + Cardinality({k \in 1..Len(folded) : folded[k] = i})

\* C28: in a call that has not failed, with one process or several, every
\* compound of the list handed out so far is held, waiting or folded once
\* and no other is; every result that waits is the delta of its compound
\* under the whole operator library; when the call has returned every
\* compound has been folded once; and the chunk size is at least 1, also
\* for an empty list.
C28_EachCompoundOnce ==
    /\ processes > 1 => ChunkSize(N, processes) >= 1
    /\ (pc = "par" /\ \A k \in 1..Len(outq) : outq[k].res.tag = "ok") =>
          \A i \in 1..N : TimesHanded(i) = (IF i < task_next THEN 1 ELSE 0)
    /\ pc = "seq" => \A i \in 1..N : TimesHanded(i) = (IF i < seq_i THEN 1 ELSE 0)
    /\ pc = "done" => \A i \in 1..N : TimesHanded(i) = 1
    /\ \A k \in 1..Len(outq) :
          outq[k].res.tag = "ok" =>
              outq[k].res = OperatorLoop(MolFromSmiles(compound_smiles[outq[k].i]), operators,
                                         EmptyDict, EmptyDict, generation)

\* the parallel branch has returned for a list that names one compound twice
C28_Witness ==
    /\ pc = "done"
    /\ processes > 1
    /\ N = 2
    /\ compound_smiles[1] = compound_smiles[2]
    /\ Len(folded) = 2
    /\ new_rxns_master # EmptyDict

\* ------------------------- properties of rule application (under SpecRxn)
\* set of the ids of the entries <<coefficient, id>> of a reaction record
EntryIds(entries) == {entries[k][2] : k \in 1..Len(entries)}

\* C5: no reaction record has a compound id both among its Reactants and
\* among its Products.
C5_NoSelfLoop ==
    \A rxn \in DOMAIN local_rxns :
        EntryIds(local_rxns[rxn].Reactants) \cap EntryIds(local_rxns[rxn].Products) = {}

\* a candidate sharing a compound with the reactants has been skipped while
\* other reactions of the same compound were recorded
C5_Witness ==
    /\ rx_last.tag = "seen"
    /\ rx_last.shared
    /\ local_rxns # EmptyDict

\* coefficient-weighted sum of the atom_count of the records of a side
RECURSIVE SideAtoms(_, _)
SideAtoms(side, e) ==
    IF side = <<>> THEN 0
    ELSE Head(side)[1] * Head(side)[2].atom_count[e] + SideAtoms(Tail(side), e)

\* sum of the formal charges of the structures zipped with the roles
RECURSIVE SideCharge(_, _)
SideCharge(mols, n) ==
    IF n = 0 THEN 0 ELSE MolCharge(mols[n]) + SideCharge(mols, n - 1)

ReactantCharge ==
    SideCharge(ReactantMols(rx_mol, operators[rx_k]),
               Min(Len(ReactantMols(rx_mol, operators[rx_k])),
                   Len(RuleRoles(operators[rx_k]).Reactants)))

ProductCharge ==
    SideCharge(rx_last.product_mols,
               Min(Len(rx_last.product_mols), Len(RuleRoles(operators[rx_k]).Products)))

\* the last candidate of the running call was recorded as a reaction
JustAccepted == rx_pc = "loop" /\ rx_last.tag = "seen" /\ rx_last.accepted

\* C6 as stated: for every element the coefficient-weighted atom counts of
\* the reactant records and of the product records of a recorded reaction
\* are equal, also when a side carries formal charge.
C6_RawAtomsConserved ==
    JustAccepted =>
        \A e \in Elements : SideAtoms(rx_begin.reactants, e) = SideAtoms(rx_last.products, e)

\* C6: for every element but H the coefficient-weighted atom counts of the
\* two sides of a recorded reaction are equal, and the H counts are equal
\* once the summed formal charge of each side's structures is subtracted.
C6_ChargeCorrectedConserved ==
    JustAccepted =>
        \A e \in Elements :
            SideAtoms(rx_begin.reactants, e) - (IF e = "H" THEN ReactantCharge ELSE 0)
              = SideAtoms(rx_last.products, e) - (IF e = "H" THEN ProductCharge ELSE 0)

\* a reaction was recorded whose product side carries a charge the reactant
\* side does not carry
C6_Witness ==
    /\ JustAccepted
    /\ ProductCharge # ReactantCharge

\* the second application of the running operator to the same structures,
\* on the dictionaries the first application returned
Reapplied ==
    RunReaction(operators[rx_k], ReactantMols(rx_mol, operators[rx_k]),
                local_cpds, local_rxns, generation)

\* C7: applying an operator again, once the result of its first application
\* is in the local dictionaries, adds no compound and no reaction and leaves
\* every Operators set as it is.
C7_Idempotent ==
    rx_pc = "returned" =>
        /\ DOMAIN Reapplied.cpds = DOMAIN local_cpds
        /\ DOMAIN Reapplied.rxns = DOMAIN local_rxns
        /\ \A rxn \in DOMAIN local_rxns :
              Reapplied.rxns[rxn].Operators = local_rxns[rxn].Operators

\* C9: no exception leaves _run_reaction: a call that has begun returns the
\* local dictionaries.
C9_RunReactionNeverRaises == rx_pc # "rxn_raised"

\* a call has returned after one of its except clauses ran for a candidate
C9_Witness ==
    /\ rx_pc = "returned"
    /\ rx_caught
    /\ rx_last.tag = "seen"

\* the step is one pass of the loop over the candidate product tuples
CandidateStep == rx_pc = "loop" /\ rx_j' = rx_j + 1

\* the id of the reaction an accepted candidate makes
AcceptedId(reactants, products) == Rxn2Hash(reactants, products).rhash

\* the reaction dictionary after the candidate with reaction id h of the rule
\* was accepted: under h the rule name alone, or the record as it was with
\* the rule name added to its operators; every other record as it was
OperatorAdded(before, after, h, rule_name) ==
    /\ DOMAIN after = (DOMAIN before) \cup {h}
    /\ \A rxn \in (DOMAIN before) \ {h} : after[rxn] = before[rxn]
    /\ IF h \in DOMAIN before
       THEN after[h] = [before[h] EXCEPT !.Operators = @ \cup {rule_name}]
       ELSE after[h]._id = h /\ after[h].Operators = {rule_name}

\* C22: over the call for one compound the local reaction dictionary holds
\* one record for each reaction id, and its operators are the names of the
\* rules that gave an accepted candidate with that id: the step of an
\* accepted candidate adds the rule name to the record under the candidate's
\* id (making the record when there is none) and changes nothing else, and
\* no other step changes the dictionary.
C22_OperatorsOfAccepted ==
    [][IF CandidateStep /\ rx_last'.accepted
       THEN OperatorAdded(local_rxns, local_rxns',
                          AcceptedId(rx_begin.reactants, rx_last'.products), operators[rx_k])
       ELSE local_rxns' = local_rxns]_vars

\* the call is over and a reaction has the names of two rules
C22_Witness ==
    /\ rx_pc = "done"
    /\ \E rxn \in DOMAIN local_rxns : Cardinality(local_rxns[rxn].Operators) = 2

\* the step is the start of _run_reaction for the next operator
BeginStep == rx_pc = "rule" /\ rx_pc' \in {"loop", "returned", "rxn_raised"}

\* the transform or the reactant half-reaction of the operator fails on the
\* compound, with the local dictionaries as they stand
ReactantsFail(rule_name, local) ==
    RawReactants(rule_name, ReactantMols(rx_mol, rule_name), local, generation).tag \in {"exc", "none"}

\* C23: a rule whose transform or whose reactant half-reaction fails returns
\* at once with the local dictionaries as they were, the loop over the
\* operators then leaves them as they were as well, and goes on to the next
\* operator.
C23_FailedRuleAddsNothing ==
    [][/\ (BeginStep /\ ReactantsFail(operators[rx_k], local_cpds)) =>
             /\ rx_pc' = "returned"
             /\ rx_begin'.tag = "return"
             /\ local_cpds' = local_cpds
             /\ local_rxns' = local_rxns
       /\ (rx_pc = "returned" /\ rx_begin.tag = "return") =>
             /\ rx_pc' = "rule"
             /\ rx_k' = rx_k + 1
             /\ local_cpds' = local_cpds
             /\ local_rxns' = local_rxns]_vars

\* the call is over; the first operator failed on the compound, and the
\* second one, applied all the same, left a reaction
C23_Witness ==
    /\ rx_pc = "done"
    /\ Len(operators) = 2
    /\ ReactantsFail(operators[1], EmptyDict)
    /\ local_rxns # EmptyDict

\* a product of the tuple in a slot of the rule that is canonicalised cannot
\* be sanitised or is a disconnected structure
BadProduct(product_mols, roles) ==
    \E k \in 1..Min(Len(product_mols), Len(roles)) :
        roles[k] = "Any" /\ MolKind(product_mols[k]) \in {"insane", "salt"}

\* C24: the pass of the product loop over a tuple with a product that cannot
\* be canonicalised or is disconnected leaves the local dictionaries as they
\* were and goes on to the next tuple; the loop ends only after the last
\* tuple.
C24_BadTupleSkipped ==
    [][/\ (CandidateStep /\ BadProduct(rx_begin.product_sets[rx_j], RuleRoles(operators[rx_k]).Products)) =>
             /\ local_cpds' = local_cpds
             /\ local_rxns' = local_rxns
             /\ rx_pc' = "loop"
       /\ (rx_pc = "loop" /\ rx_pc' # "loop") =>
             /\ rx_pc' = "returned"
             /\ rx_j > Len(rx_begin.product_sets)]_vars

\* a tuple is accepted after an earlier tuple of the same rule application
\* was skipped for a bad product
C24_Witness ==
    /\ rx_pc = "loop"
    /\ rx_last.tag = "seen"
    /\ rx_last.accepted
    /\ \E j \in 1..(rx_j - 2) :
          BadProduct(rx_begin.product_sets[j], RuleRoles(operators[rx_k]).Products)

\* C25: at every point of the call for one compound, and so in the delta it
\* returns, every record of local_cpds is kept under its own id, which
\* starts with C, and has Type Predicted, the generation of the call and
\* Expand true; no record of a coreactant (id starting with X) is in it.
C25_DeltaHoldsPredictedOnly ==
    \A cpd_id \in DOMAIN local_cpds :
        /\ local_cpds[cpd_id]._id = cpd_id
        /\ StartsWith(cpd_id, "C")
        /\ ~StartsWith(cpd_id, "X")
        /\ local_cpds[cpd_id].Type = "Predicted"
        /\ local_cpds[cpd_id].Generation = generation
        /\ local_cpds[cpd_id].Expand

\* the call is over; a reaction with a coreactant among its products was
\* recorded, and the delta holds compounds
C25_Witness ==
    /\ rx_pc = "done"
    /\ local_cpds # EmptyDict
    /\ \E rxn \in DOMAIN local_rxns :
          \E k \in 1..Len(local_rxns[rxn].Products) :
              StartsWith(local_rxns[rxn].Products[k][2], "X")

\* the compound id a slot of a rule resolves to: the id of the structure in
\* a wildcard slot, the id of the coreactant in any other
SlotId(mol, role) ==
    IF role = "Any" THEN CompoundHash(mol, "Predicted") ELSE CoreactantId(role)

\* sum of the coefficients of a half-reaction
RECURSIVE CoefSum(_)
CoefSum(half) == IF half = <<>> THEN 0 ELSE Head(half)[1] + CoefSum(Tail(half))

\* the half-reaction built from the structures and the roles of the slots
\* names every compound once, with the number of slots resolving to it
HalfCounts(half, mol_list, roles) ==
    /\ \A a, b \in 1..Len(half) : half[a][2]._id = half[b][2]._id => a = b
    /\ \A a \in 1..Len(half) :
          half[a][1] = Cardinality({k \in 1..Len(roles) : SlotId(mol_list[k], roles[k]) = half[a][2]._id})
    /\ CoefSum(half) = Len(roles)
    /\ \A k \in 1..Len(roles) :
          \E a \in 1..Len(half) : half[a][2]._id = SlotId(mol_list[k], roles[k])

\* C29: the reactant half-reaction a rule application goes into the product
\* loop with, and the product half-reaction of every accepted candidate,
\* name each compound id once, with the number of slots that resolved to it
\* as its coefficient, the coefficients adding up to the number of slots;
\* on the reactant side every wildcard slot resolves to the compound under
\* expansion and every other slot to its coreactant.
C29_HalfReactionCounts ==
    /\ (rx_pc \in {"loop", "returned"} /\ rx_begin.tag = "loop") =>
          HalfCounts(rx_begin.reactants,
                     [k \in 1..Len(RuleRoles(operators[rx_k]).Reactants) |-> rx_mol],
                     RuleRoles(operators[rx_k]).Reactants)
    /\ (rx_pc \in {"loop", "returned"} /\ rx_last.tag = "seen" /\ rx_last.accepted) =>
          HalfCounts(rx_last.products, rx_last.product_mols, RuleRoles(operators[rx_k]).Products)

\* a rule with two wildcard reactant slots has an accepted candidate: the
\* compound under expansion has the coefficient 2
C29_Witness ==
    /\ rx_pc = "returned"
    /\ rx_begin.tag = "loop"
    /\ rx_last.tag = "seen"
    /\ rx_last.accepted
    /\ \E a \in 1..Len(rx_begin.reactants) : rx_begin.reactants[a][1] = 2

\* ----------------------------------- properties of the store (under SpecDB)
\* the reactions of the store named in the back-reference lists of the record
Reachable ==
    {rid \in DOMAIN db_reactions :
        \/ "Product_of" \in DOMAIN comp_dict
           /\ \E k \in 1..Len(comp_dict.Product_of) : comp_dict.Product_of[k] = rid
        \/ "Reactant_in" \in DOMAIN comp_dict
           /\ \E k \in 1..Len(comp_dict.Reactant_in) : comp_dict.Reactant_in[k] = rid}

\* one side of a reaction document after a step, against the side before:
\* the same number of entries in the same order with the same coefficients,
\* and an id differs only where the old id stood, which became the new id
SideFrame(before, after) ==
    /\ Len(after) = Len(before)
    /\ \A k \in 1..Len(before) :
          /\ after[k].fmt = before[k].fmt
          /\ after[k].stoich = before[k].stoich
          /\ after[k].c_id # before[k].c_id =>
                (before[k].c_id = db_old /\ after[k].c_id = new_id)

\* C30: every step of fix_rxn_pointers leaves the set of reaction documents
\* as it is, leaves untouched every reaction not named in Product_of or
\* Reactant_in of the record, and in any reaction changes nothing but
\* entries holding the old id, which receive the new id: coefficients,
\* order and length of the lists and all other ids stay.
C30_OnlyOldIdRewritten ==
    [][/\ DOMAIN db_reactions' = DOMAIN db_reactions
       /\ \A rid \in DOMAIN db_reactions :
             /\ rid \notin Reachable => db_reactions'[rid] = db_reactions[rid]
             /\ DOMAIN db_reactions'[rid] = DOMAIN db_reactions[rid]
             /\ SideFrame(db_reactions[rid].Reactants, db_reactions'[rid].Reactants)
             /\ SideFrame(db_reactions[rid].Products, db_reactions'[rid].Products)]_vars

\* the call has returned after rewriting the old id to a fresh one in a
\* reaction whose rewritten side holds another compound too, and the store
\* holds a reaction the record does not name
C30_Witness ==
    /\ db_pc = "returned"
    /\ new_id = FreshId
    /\ db_old # new_id
    /\ \E rid \in DOMAIN db_reactions :
          \E side_name \in {"Reactants", "Products"} :
              /\ Len(db_reactions[rid][side_name]) = 2
              /\ FreshId \in SideIds(db_reactions[rid][side_name])
    /\ \E rid \in DOMAIN db_reactions :
          /\ rid \notin Reachable
          /\ db_hash[rid] = DocHash(db_reactions[rid])

\* the ids of a list of entries are pairwise different
NoIdTwice(side) == \A a, b \in 1..Len(side) : side[a].c_id = side[b].c_id => a = b

\* C33: once fix_rxn_pointers has returned, whatever new_id is, every
\* reaction named in the back-reference lists of the record has no compound
\* id on both sides and no compound id twice in one list.
C33_RenameKeepsSidesApart ==
    db_pc = "returned" =>
        \A rid \in Reachable :
            /\ SideIds(db_reactions[rid].Reactants) \cap SideIds(db_reactions[rid].Products) = {}
            /\ NoIdTwice(db_reactions[rid].Reactants)
            /\ NoIdTwice(db_reactions[rid].Products)

\* C38: fix_rxn_pointers raises for no record and no store, also when a
\* back-reference list names a reaction that is not in the collection, and
\* when it has returned with a new id the reactions of the lists that are in
\* the collection no longer have the old id on the side walked.
C38_NoRaiseRestRewritten ==
    /\ db_pc # "raised"
    /\ (db_pc = "returned" /\ new_id # db_old) =>
          \A side \in {<<"Product_of", "Products">>, <<"Reactant_in", "Reactants">>} :
              side[1] \in DOMAIN comp_dict =>
                  \A k \in 1..Len(comp_dict[side[1]]) :
                      comp_dict[side[1]][k] \in DOMAIN db_reactions =>
                          db_old \notin SideIds(db_reactions[comp_dict[side[1]][k]][side[2]])

\* ------------------- properties of add_rxn_pointers (under SpecPtr)
\* the reaction is in the back-reference list of the compound document
Listed(doc, field, rid) ==
    /\ field \in DOMAIN doc
    /\ \E k \in 1..Len(doc[field]) : doc[field][k] = rid

\* C31: when the first call of add_rxn_pointers on a store without
\* back-references has returned, for every compound document c and every
\* reaction r of the store, r is in Reactant_in of c exactly when c is
\* among the Reactants of r, and in Product_of of c exactly when c is
\* among the Products of r.
C31_PointersMatchSides ==
    (ptr_pc = "returned" /\ ptr_runs = 1) =>
        \A c \in DOMAIN db_compounds : \A rid \in DOMAIN db_reactions :
            /\ Listed(db_compounds[c], "Reactant_in", rid) <=> c \in SideIds(db_reactions[rid].Reactants)
            /\ Listed(db_compounds[c], "Product_of", rid) <=> c \in SideIds(db_reactions[rid].Products)

\* the first call has returned; a compound is a reactant of two reactions,
\* a compound is a product, and the reactant Cc of a reaction has no
\* document in the compounds collection
C31_Witness ==
    /\ ptr_pc = "returned"
    /\ ptr_runs = 1
    /\ \E c \in DOMAIN db_compounds :
          /\ "Reactant_in" \in DOMAIN db_compounds[c]
          /\ Len(db_compounds[c].Reactant_in) = 2
    /\ \E c \in DOMAIN db_compounds : "Product_of" \in DOMAIN db_compounds[c]
    /\ \E rid \in DOMAIN db_reactions : "Cc" \in SideIds(db_reactions[rid].Reactants)
    /\ "Cc" \notin DOMAIN db_compounds

\* C36: when a second call of add_rxn_pointers on the same store has
\* returned, the compound documents are the ones the first call left, and
\* no back-reference list names a reaction twice.
C36_SecondRunChangesNothing ==
    (ptr_pc = "returned" /\ ptr_runs = 2) =>
        /\ db_compounds = ptr_once
        /\ \A c \in DOMAIN db_compounds : \A field \in {"Reactant_in", "Product_of"} :
              field \in DOMAIN db_compounds[c] => Injective(db_compounds[c][field])

\* C8: once fix_rxn_pointers has returned with a new id different from the
\* old one, no reaction named in the Product_of or Reactant_in list of the
\* record has the old id in its Reactants or in its Products.
C8_NoOldIdLeft ==
    (db_pc = "returned" /\ new_id # db_old) =>
        \A rid \in Reachable :
            db_old \notin SideIds(db_reactions[rid].Reactants) \cup SideIds(db_reactions[rid].Products)

\* C13: in every state of the store, also after fix_rxn_pointers has
\* rewritten compound ids in a reaction, the id of every reaction document is
\* the content hash of its current Reactants and Products.
C13_IdIsContentHash ==
    \A rid \in DOMAIN db_reactions : db_hash[rid] = DocHash(db_reactions[rid])

\* ---------------------------- properties of the reaction id (under SpecHash)
\* how often the pair (coefficient, compound id) occurs in a half-reaction
PairCount(side, coef, cpd_id) ==
    Cardinality({k \in 1..Len(side) : side[k][1] = coef /\ side[k][2]._id = cpd_id})

\* the two half-reactions are equal as multisets of (coefficient, id) pairs
SamePairs(a, b) ==
    \A coef \in 1..MaxCoef : \A cpd \in HashCpds :
        PairCount(a, coef, cpd._id) = PairCount(b, coef, cpd._id)

\* C12: two reactions receive the same reaction id exactly when their
\* reactant sides are equal as multisets of (coefficient, compound id) pairs
\* and their product sides are too; the order of the lists does not matter
\* and different coefficients give different ids.
C12_SameIdIffSamePairs ==
    h_pc = "hashed" =>
        ((h_out[1].rhash = h_out[2].rhash)
            <=> (/\ SamePairs(h_left.reactants, h_right.reactants)
                 /\ SamePairs(h_left.products, h_right.products)))

\* a compound record after a merge step, against the record before it: the
\* record made on first discovery is still there, field by field
CpdOnlyExtended(before, after) ==
    /\ after._id = before._id
    /\ after.SMILES = before.SMILES
    /\ after.Type = before.Type
    /\ after.Generation = before.Generation
    /\ after.atom_count = before.atom_count

\* a reaction record after a merge step: the lists are the same, the set of
\* operators has at most grown
RxnOnlyExtended(before, after) ==
    /\ after._id = before._id
    /\ after.Reactants = before.Reactants
    /\ after.Products = before.Products
    /\ before.Operators \subseteq after.Operators

\* C17: over every sequence of merge steps no compound id and no reaction id
\* leaves the master dictionaries, the Reactants and Products of a reaction
\* already present stay as they are, and a record already present is only
\* extended, never replaced by another one.
C17_OnlyExtended ==
    [][/\ DOMAIN new_cpds_master \subseteq DOMAIN new_cpds_master'
       /\ DOMAIN new_rxns_master \subseteq DOMAIN new_rxns_master'
       /\ \A rxn \in DOMAIN new_rxns_master :
             RxnOnlyExtended(new_rxns_master[rxn], new_rxns_master'[rxn])
       /\ \A cpd_id \in DOMAIN new_cpds_master :
             CpdOnlyExtended(new_cpds_master[cpd_id], new_cpds_master'[cpd_id])]_vars

\* C18: a call of fix_rxn_pointers with new_id equal to the id of the record
\* never enters the walks that read and rewrite reaction documents, leaves
\* the reactions collection as it is, and hands back the record with the id
\* and every other field as they were.
C18_SameIdNoOp ==
    [][new_id = db_old =>
          /\ db_pc' \in {"setid", "returned"}
          /\ db_reactions' = db_reactions
          /\ comp_dict' = comp_dict]_vars

C18_Witness ==
    /\ db_pc = "returned"
    /\ new_id = db_old
    /\ "Product_of" \in DOMAIN comp_dict
    /\ "Reactant_in" \in DOMAIN comp_dict
    /\ comp_dict.Product_of # <<>>
    /\ comp_dict.Reactant_in # <<>>

\* the reactions named in one back-reference list of the record still have
\* the old id on the side the list stands for
StillOld(field, side_name) ==
    /\ field \in DOMAIN comp_dict
    /\ \E k \in 1..Len(comp_dict[field]) :
          /\ comp_dict[field][k] \in DOMAIN db_reactions
          /\ db_old \in SideIds(db_reactions[comp_dict[field][k]][side_name])

\* C19: for a record lacking Product_of, Reactant_in or both, the call of
\* fix_rxn_pointers raises nothing; when it has returned the record has the
\* id new_id, and the reactions of the list that is present are rewritten:
\* none of them has the old id on that side any more.
C19_MissingListsTolerated ==
    ("Product_of" \notin DOMAIN comp_dict \/ "Reactant_in" \notin DOMAIN comp_dict) =>
        /\ db_pc # "raised"
        /\ db_pc = "returned" =>
              /\ comp_dict._id = new_id
              /\ new_id # db_old =>
                    /\ ~StillOld("Product_of", "Products")
                    /\ ~StillOld("Reactant_in", "Reactants")

\* ------------------------ properties of prevent_overwrite (under SpecPo)
\* C26: prevent_overwrite makes no more passes than there are files, and the
\* path it returns does not exist; it is the input when the input does not
\* exist, and else the input followed by one or more "_new".
C26_FreePathBySuffix ==
    /\ po_iter <= Cardinality(po_exists)
    /\ po_pc = "returned" =>
          /\ write_path \notin po_exists
          /\ po_input \notin po_exists => write_path = po_input
          /\ po_input \in po_exists =>
                \E k \in 1..(MaxNew + 1) : write_path = Suffixed(po_input, k)

\* the piece holds a directory separator: the file name begins in it
HasSlash(piece) == piece[1] = "/out"

\* the path with "_new" put k times into the file name: in front of the
\* extension when the name has one (a dot after the last separator), at the
\* end of the name when it has none
NewInName(path, k) ==
    IF Len(path) = 1 \/ HasSlash(path[Len(path)]) THEN Suffixed(path, k)
    ELSE [path EXCEPT ![Len(path) - 1] = <<@[1], @[2] + k>>]

\* C37: the path prevent_overwrite returns is the input with "_new" put into
\* the file name once per pass of the loop, in front of the extension or at
\* the end of a name without extension; the directory part, also one with
\* a dot in it, stays as it is.
C37_NewInFileName ==
    po_pc = "returned" => write_path = NewInName(po_input, po_iter)

\* ----------------------- properties of the compound id (under SpecCpdHash)
\* the prefix compound_hash is to give the type
RolePrefix(cpd_type) ==
    IF cpd_type = "Coreactant" THEN "X" ELSE IF cpd_type = "Target Compound" THEN "T" ELSE "C"

C20_RewrittenBeforeSave ==
    (ins_pc = "saved" /\ db_old # "none" /\ comp_dict._id # db_old) =>
        /\ db_pc = "returned"
        /\ \A rid \in Reachable :
              db_old \notin SideIds(db_reactions[rid].Reactants) \cup SideIds(db_reactions[rid].Products)

\* ------------------ properties of the MINE_id (under SpecMine)
\* the documents that carry a MINE_id: those of the id database and those
\* of the compounds collection
Numbered == {id_db[c] : c \in DOMAIN id_db} \cup {db_compounds[c] : c \in DOMAIN db_compounds}

\* C34: in every state any interleaving of the inserters reaches, two
\* stored compounds have the same MINE_id exactly when they have the same
\* Inchikey.
C34_MineIdByInchikey ==
    \A x, y \in Numbered : (x.Inchikey = y.Inchikey) <=> (x.MINE_id = y.MINE_id)

ExRank(at) ==
    IF at = "start" THEN 4 ELSE IF at = "idle" THEN 3 ELSE IF at = "expanding" THEN 2
    ELSE IF at = "merging" THEN 1 ELSE 0

ExMeasure == 4 * (ex_max - ex_g) + ExRank(ex_pc)

\* C16: the expansion loop ends: every step of the loop strictly lowers a
\* measure that never goes below zero, so no run of the loop is endless; it
\* begins at most max-generation-count rounds; and when it is done the
\* frontier is empty or the next generation would exceed the maximum.
C16_LoopTerminates ==
    [][/\ ExMeasure' < ExMeasure
       /\ ExMeasure' >= 0
       /\ ex_rounds' <= ex_max
       /\ ex_pc' = "done" => (ex_frontier' = <<>> \/ ex_g' + 1 > ex_max)]_vars

C16_Witness ==
    /\ ex_pc = "done"
    /\ ex_rounds = ex_max
    /\ ex_rounds > 0
    /\ ex_frontier # <<>>

=============================================================================
